---------------------------- MODULE Spec2Model ----------------------------
(***************************************************************************)
(* The Google-Maps review scraper of Vidisky-Reviews as a state machine.   *)
(*                                                                         *)
(* The repository holds two implementations of scrapeGoogleReviews:        *)
(*   impl = "server"   backend/server.js (the one the /google-scrape route *)
(*                      calls)                                             *)
(*   impl = "scraper"  backend/scrapers/googleScraper.js                   *)
(* One scrape operation is modelled, one action per await-delimited step   *)
(* of the async function.  The page is the environment: what it renders,   *)
(* which driver call rejects and how much time passes are chosen           *)
(* nondeterministically from small sets.                                   *)
(*                                                                         *)
(* Spec follows one operation step by step.  HandlerSpec follows the       *)
(* /google-scrape route of server.js with its cache, for several requests  *)
(* in flight; there the operation is an awaited promise that resolves or   *)
(* rejects.                                                                *)
(***************************************************************************)
EXTENDS Integers, Sequences, FiniteSets, TLC

VARIABLES
    impl,           \* which implementation runs this operation
    maxReviews,     \* query: maxReviews
    timeoutMs,      \* query: timeoutMs (in clock units)
    pc,             \* position inside scrapeGoogleReviews
    elapsed,        \* Date.now() - start
    browser,        \* "none" | "open" | "closed"
    context,        \* "none" | "open" | "closed"
    launches,       \* number of chromium.launch() calls that returned
    contextCloses,  \* number of context.close() calls
    browserCloses,  \* number of browser.close() calls
    variant,        \* server: index into searchVariants of the current goto
    onPlace,        \* server: let onPlace; scraper: the place panel was awaited and seen
    cardsLocator,   \* server: index into cardSelectors, 0 = null
    out,            \* server: texts (a Set, in insertion order); scraper: out
    stagnation,     \* let stagnation
    lastCount,      \* let lastCount
    placeUrl,       \* let placeUrl
    errKind,        \* the error in flight or thrown, "none" if none
    outcome,        \* "running" | "ok" | "error"
    result,         \* the returned array of {text, url}
    \* history variables, read by the properties only
    firstSeen,      \* extracted texts in first-seen order, one per lower-cased key
    idleRun,        \* consecutive iterations without growth (up to StagnationLimit)
    deadlineInNav,  \* the budget was exceeded before the collection loop was reached
    stopCause,      \* why the collection loop ended
    collected,      \* at least one collection iteration has run
    visited,        \* the search variants page.goto was issued for, in order
    placeChecks,    \* number of completed checks for a place page
    bestEffort,     \* what the best-effort step just taken did (NoEffort otherwise)
    firstLook,      \* "empty" | "cards": what the step just taken found when it was
                    \* the operation's first look for review cards ("none" otherwise)
    look,           \* history: the cards the extraction just made had before it
                    \* (matched by some pattern of the list, matched by the one
                    \* it used) and the strings it kept; NoLook otherwise
    \* the server process around the operation (server.js, /google-scrape)
    clientQueries,  \* the query strings the clients of this run send
    now,            \* Date.now() of the process, in units of TTL_MS
    cache,          \* const cache = new Map(): a set of [k, ts, v], one per key
    query,          \* query[r]: req.query of request r
    hpc,            \* hpc[r]: "waiting" | "scraping" | "done", the handler of r
    responses,      \* responses[r]: what was sent on res, in order
    scrapeOutcome,  \* history, scrapeOutcome[r]: "none" | "ok" | the error thrown
    scrapeArgs,     \* history, scrapeArgs[r]: the arguments of the scrape started
                    \* for request r (NoArgs when none was)
    \* several calls of scrapeGoogleReviews in flight (ConcurrentSpec)
    ops,            \* ops[o]: the locals of call o and the page it drives
    \* the page that calls the backend and merges the answers (MergeSpec)
    caller,         \* "App" (frontend/src/App.jsx) | "part_000" (unnamed/part_000)
    tasks,          \* tasks[i]: the request to source i, pending or settled
    cpc,            \* "idle" | "fetching" | "done"
    uiItems,        \* the list handed to setItems / setResults
    uiError,        \* the message handed to setError
    \* the open-place step of server.js followed call by call (PlaceSpec)
    ppc,            \* position in tryOpenFirstResult / line 158
    cand,           \* index in candidates of the selector at hand
    probes,         \* probes of the waitForPlaceUI race in progress
    abandoned,      \* probes that lost their race and are still pending
    opened,         \* the value of onPlace once the step is done
    pnote,          \* history: what the driver call just made answered
    \* pollOutscraper and the normalization of its value (PollSpec)
    pollPc,         \* position in pollOutscraper / the /google-reviews handler
    waited,         \* Date.now() - started
    maxWaitMs,      \* option maxWaitMs (in clock units)
    intervalMs,     \* option intervalMs (in clock units)
    lastJson,       \* let lastJson
    finalJson,      \* let finalJson, the value pollOutscraper returned
    pollReply,      \* what the handler sent on res
    timedOut        \* history: the value was returned after the loop ended

vars == <<impl, maxReviews, timeoutMs, pc, elapsed, browser, context, launches,
          contextCloses, browserCloses, variant, cardsLocator, out, stagnation,
          lastCount, placeUrl, errKind, outcome, result,
          firstSeen, idleRun, deadlineInNav, stopCause, collected,
          onPlace, visited, placeChecks, bestEffort, firstLook, look,
          clientQueries, now, cache, query, hpc, responses, scrapeOutcome,
          scrapeArgs, ops, caller, tasks, cpc, uiItems, uiError,
          ppc, cand, probes, abandoned, opened, pnote,
          pollPc, waited, maxWaitMs, intervalMs, lastJson, finalJson,
          pollReply, timedOut>>

---------------------------------------------------------------------------
(* Bounds of the model *)

MaxMaxReviews == 2      \* maxReviews ranges over 1..MaxMaxReviews
MaxTimeout == 1         \* timeoutMs ranges over 1..MaxTimeout clock units
MaxElapsed == 2         \* the clock stops advancing at MaxElapsed
MaxRendered == 2        \* cards rendered at once in one observation
MaxConsentFrames == 2   \* frames of the page whose url contains "consent"
MaxRequests == 2        \* requests to /google-scrape in one run of the process
MaxOperations == 2      \* calls of scrapeGoogleReviews in flight at once
MaxAnswer == 2          \* records in the answer of one source
MaxWait == 3            \* maxWaitMs ranges over 0..MaxWait clock units
MaxInterval == 2        \* intervalMs ranges over 1..MaxInterval clock units
MaxFetchTime == 1       \* one fetch and its r.text() take 0..MaxFetchTime units
MaxLate == 1            \* a timer fires 0..MaxLate units after it is due

(* Program constants *)

StagnationLimit == 6    \* if (... stagnation >= 6) break
MinTextLength == 5      \* if (t && t.length > 5)
NumSearchVariants == 3  \* searchVariants.length
NumReviewControls == 4  \* btns.length in openReviews
NumCardSelectors == 5   \* cardSelectors.length
TTL_MS == 1             \* 1000 * 60 * 60 * 6 ms, the unit of the process clock
DefaultMax == 80        \* parseInt(req.query.max || "80", 10) || 80
MaxCap == 200           \* Math.min(..., 200)
DefaultTimeout == 120000    \* parseInt(req.query.timeout || "120000", 10) || 120000
TimeoutCap == 240000        \* Math.min(..., 240000)
MaxShown == 300         \* App.jsx: dedupe(results).slice(0, 300)
NumCandidates == 5      \* candidates.length in tryOpenFirstResult
NumProbes == 3          \* the waitForSelector calls raced in waitForPlaceUI

\* the process clock stops advancing one unit after an entry written at the
\* start has expired
MaxNow == TTL_MS + 1

---------------------------------------------------------------------------
(* Strings are sequences of characters, so that trim(), toLowerCase() and   *)
(* length are computed, not assumed.                                        *)

GreatPlace    == <<"G","r","e","a","t"," ","p","l","a","c","e">>
greatplacePad == <<" ","g","r","e","a","t"," ","p","l","a","c","e"," ">>
Great         == <<"G","r","e","a","t">>
TooLoud       == <<"T","o","o"," ","l","o","u","d">>
NicePoolPad   == <<" ","N","i","c","e"," ","p","o","o","l"," ">>
Empty         == <<>>

ShareUrl == "https://maps.app.goo.gl/share"
SearchVariant0 == "https://www.google.com/maps/search/q?hl=en&gl=us"

\* String.prototype.toLowerCase on one character
LowerChar(c) ==
    CASE c = "G" -> "g"
      [] c = "N" -> "n"
      [] c = "T" -> "t"
      [] c = "L" -> "l"
      [] c = "S" -> "s"
      [] c = "P" -> "p"
      [] c = "D" -> "d"
      [] c = "O" -> "o"
      [] c = "E" -> "e"
      [] OTHER -> c

ToLowerCase(s) == [i \in 1..Len(s) |-> LowerChar(s[i])]

RECURSIVE TrimStart(_)
TrimStart(s) ==
    IF s # <<>> /\ Head(s) = " " THEN TrimStart(Tail(s)) ELSE s

RECURSIVE TrimEnd(_)
TrimEnd(s) ==
    IF s # <<>> /\ s[Len(s)] = " " THEN TrimEnd(SubSeq(s, 1, Len(s) - 1)) ELSE s

\* String.prototype.trim
Trim(s) == TrimEnd(TrimStart(s))

\* a || b on strings: undefined and "" are both falsy
OrElse(a, b) == IF a # Empty THEN a ELSE b

Range(s) == {s[i] : i \in 1..Len(s)}

Take(s, n) == SubSeq(s, 1, IF n < Len(s) THEN n ELSE Len(s))

---------------------------------------------------------------------------
(* The page's review cards, in document order.  sel is the index in         *)
(* cardSelectors of the markup shape the card is rendered under; long,      *)
(* short, alt are the innerText of the three text-bearing nodes (Empty when *)
(* the node is absent).                                                     *)

Cards == <<
    [sel |-> 1, long |-> GreatPlace, short |-> Great,         alt |-> Empty],
    [sel |-> 1, long |-> Empty,      short |-> greatplacePad, alt |-> Empty],
    [sel |-> 1, long |-> Empty,      short |-> Great,         alt |-> Empty],
    [sel |-> 1, long |-> TooLoud,    short |-> Empty,         alt |-> Empty],
    [sel |-> 4, long |-> Empty,      short |-> Empty,         alt |-> NicePoolPad] >>

CardIds == 1..Len(Cards)

\* what the page may have rendered at one observation
Renderings == {r \in SUBSET CardIds : Cardinality(r) <= MaxRendered}

\* the rendered cards that a selector matches, in document order
RECURSIVE NodesFrom(_, _, _)
NodesFrom(i, rendered, sels) ==
    IF i > Len(Cards) THEN <<>>
    ELSE IF i \in rendered /\ Cards[i].sel \in sels
         THEN <<Cards[i]>> \o NodesFrom(i + 1, rendered, sels)
         ELSE NodesFrom(i + 1, rendered, sels)


---------------------------------------------------------------------------
(* Extraction and merge *)

\* server.js: the text of one card node
NodeText(n) == Trim(OrElse(OrElse(n.long, n.short), n.alt))

\* googleScraper.js: the text of one card element (no alt fallback)
G_NodeText(el) == Trim(OrElse(el.long, el.short))

\* server.js: cardsLocator.evaluateAll(...), the chunk of one iteration
RECURSIVE EvaluateAll(_)
EvaluateAll(nodes) ==
    IF nodes = <<>> THEN <<>>
    ELSE LET t == NodeText(Head(nodes))
         IN  (IF t # Empty /\ Len(t) > MinTextLength THEN <<t>> ELSE <<>>)
             \o EvaluateAll(Tail(nodes))

\* googleScraper.js: reviewCards.evaluateAll(...), the items of one iteration
RECURSIVE G_EvaluateAll(_)
G_EvaluateAll(cards) ==
    IF cards = <<>> THEN <<>>
    ELSE LET text == G_NodeText(Head(cards))
         IN  (IF text # Empty /\ Len(text) > MinTextLength THEN <<text>> ELSE <<>>)
             \o G_EvaluateAll(Tail(cards))

\* AddAll where the set is rebuilt from the chunk of the current iteration
AddAll_Rebuild(texts, chunk) == chunk

\* server.js: for (const t of chunk) texts.add(t)  (a Set keeps insertion order
\* and compares strings exactly)
RECURSIVE AddAll(_, _)
AddAll(texts, chunk) ==
    IF chunk = <<>> THEN texts
    ELSE AddAll(IF Head(chunk) \in Range(texts) THEN texts
                ELSE Append(texts, Head(chunk)),
                Tail(chunk))

\* googleScraper.js: push when no element has the same lower-cased text
RECURSIVE AppendUniques(_, _)
AppendUniques(acc, items) ==
    IF items = <<>> THEN acc
    ELSE LET k == ToLowerCase(Head(items))
         IN  AppendUniques(IF \E i \in 1..Len(acc) : ToLowerCase(acc[i]) = k
                           THEN acc ELSE Append(acc, Head(items)),
                           Tail(items))

\* ToRecords with the slice(0, maxReviews) left out
ToRecords_NoSlice(texts, url, max) ==
    [i \in 1..Len(texts) |-> [text |-> texts[i], url |-> url]]

\* server.js: Array.from(texts).slice(0, maxReviews).map(text => ({text, url}))
ToRecords(texts, url, max) ==
    LET kept == Take(texts, max)
    IN  [i \in 1..Len(kept) |-> [text |-> kept[i], url |-> url]]

\* server.js: placeUrl || searchVariants[0]
SourceUrl(url) == IF url # "" THEN url ELSE SearchVariant0

\* googleScraper.js: out.slice(0, maxReviews).map(r => ({text: r.text, url: placeUrl || ""}))
G_ToRecords(acc, url, max) ==
    LET kept == Take(acc, max)
    IN  [i \in 1..Len(kept) |-> [text |-> kept[i], url |-> IF url # "" THEN url ELSE ""]]

---------------------------------------------------------------------------
(* Best-effort steps.  The history variable bestEffort holds what the       *)
(* best-effort step just taken saw and did: page is what the page showed,   *)
(* clicked the click calls it issued in order, threw whether a driver call  *)
(* of the step rejected (and was caught).                                   *)

NoEffort == [step |-> "none", page |-> <<>>, clicked |-> <<>>, threw |-> FALSE]

\* f.$(...) on one consent frame: no accept button, one found, or rejection
ConsentFrameStates == {"none", "button", "throws"}

\* what maybeDismissConsent may be shown: top is topButtons.first().isVisible()
\* (false when it rejects), frames the consent frames in page.frames() order
ConsentPages ==
    {[top |-> t, frames |-> fs] :
        t \in BOOLEAN,
        fs \in UNION {[1..n -> ConsentFrameStates] : n \in 0..MaxConsentFrames}}

\* for (const f of consentFrames) { const b = await f.$(...); if (b) {click; return} }
\* the frames clicked (by index) and whether f.$ rejected
RECURSIVE FrameScan(_, _)
FrameScan(frames, i) ==
    IF i > Len(frames) THEN [clicked |-> <<>>, threw |-> FALSE]
    ELSE IF frames[i] = "throws" THEN [clicked |-> <<>>, threw |-> TRUE]
    ELSE IF frames[i] = "button" THEN [clicked |-> <<i>>, threw |-> FALSE]
    ELSE FrameScan(frames, i + 1)

\* ConsentClicks where the frames are handled after a top-level click as well
ConsentClicks_TopAndFrames(top, frames) ==
    LET inFrames == FrameScan(frames, 1)
    IN  IF top THEN [clicked |-> <<0>> \o inFrames.clicked, threw |-> inFrames.threw]
        ELSE inFrames

\* maybeDismissConsent: the accept buttons clicked (0 = top-level document,
\* i = consent frame i) and whether the function rejected
ConsentClicks(top, frames) ==
    IF top THEN [clicked |-> <<0>>, threw |-> FALSE]
    ELSE FrameScan(frames, 1)

\* what the share-URL block may end with: the value read from the "Link to
\* share" input (.catch(() => "") and the untaken branches leave ""), and
\* whether a driver call of the block rejected; a rejected click does not
\* keep the input from being read
ShareOutcomes ==
    {[value |-> v, threw |-> t] : v \in {"", ShareUrl}, t \in BOOLEAN}

ReviewControls == 1..NumReviewControls

\* openReviews: for (const sel of btns) { if (visible) { click; return true } }
\* the controls clicked, given the set of controls whose isVisible() gave true
RECURSIVE FirstVisible(_, _)
FirstVisible(visible, i) ==
    IF i > NumReviewControls THEN <<>>
    ELSE IF i \in visible THEN <<i>>
    ELSE FirstVisible(visible, i + 1)

\* what the sort block may be shown: whether the Sort control and the Newest
\* menu item are visible (false when isVisible rejects)
SortPages == {[sort |-> sv, newest |-> nv] : sv, nv \in BOOLEAN}

\* the sort block: the clicks issued (1 = Sort control, 2 = Newest item)
SortClicks(page) ==
    IF ~page.sort THEN <<>>
    ELSE IF page.newest THEN <<1, 2>> ELSE <<1>>

---------------------------------------------------------------------------
(* Positions *)

\* positions before the collection loop is reached
NavPcs == {"launch", "newContext", "newPage", "goto", "consent", "openPlace",
           "openReviews", "findCards", "scroller", "sort",
           "clickFirst", "waitPanel", "clickAll", "scrollerWait"}

\* positions of the collection loop
LoopPcs == {"loopHead", "extract", "scroll"}

\* positions whose step issues a driver call on the page or the session
DriverPcs == NavPcs \cup LoopPcs \cup {"share"}

\* the requests the process receives
Requests == 1..MaxRequests

\* req.query before the request has arrived
NoQuery == [name |-> Empty, location |-> Empty, max |-> Empty, timeout |-> Empty,
            nocache |-> Empty, keywords |-> Empty]

\* no call of scrapeGoogleReviews
NoArgs == [name |-> Empty, location |-> Empty, maxReviews |-> 0, timeoutMs |-> 0]

\* the server process at start: an empty cache, no request received
ServerStart ==
    /\ now = 0
    /\ cache = {}
    /\ query = [r \in Requests |-> NoQuery]
    /\ hpc = [r \in Requests |-> "waiting"]
    /\ responses = [r \in Requests |-> <<>>]
    /\ scrapeOutcome = [r \in Requests |-> "none"]
    /\ scrapeArgs = [r \in Requests |-> NoArgs]

\* the extraction just made is none
NoLook == [matched |-> 0, used |-> 0, kept |-> 0]

\* the cards of rendering r that some pattern of cardSelectors matches, those
\* that the patterns in sels match, and the strings evaluateAll returned
LookAt(r, sels, chunk) ==
    [matched |-> Len(NodesFrom(1, r, 1..NumCardSelectors)),
     used |-> Len(NodesFrom(1, r, sels)),
     kept |-> Len(chunk)]

\* scrapeGoogleReviews at its first statement
OperationStart ==
    /\ pc = "launch"
    /\ elapsed = 0
    /\ browser = "none"
    /\ context = "none"
    /\ launches = 0
    /\ contextCloses = 0
    /\ browserCloses = 0
    /\ variant = 0
    /\ cardsLocator = 0
    /\ out = <<>>
    /\ stagnation = 0
    /\ lastCount = 0
    /\ placeUrl = ""
    /\ errKind = "none"
    /\ outcome = "running"
    /\ result = <<>>
    /\ firstSeen = <<>>
    /\ idleRun = 0
    /\ deadlineInNav = FALSE
    /\ stopCause = "none"
    /\ collected = FALSE
    /\ onPlace = FALSE
    /\ visited = <<>>
    /\ placeChecks = 0
    /\ bestEffort = NoEffort
    /\ firstLook = "none"
    /\ look = NoLook

\* no concurrent calls are followed
NoOperations == ops = <<>>

callerVars == <<caller, tasks, cpc, uiItems, uiError>>

\* the page before the fetch button is pressed
CallerStart ==
    /\ tasks = <<>>
    /\ cpc = "idle"
    /\ uiItems = <<>>
    /\ uiError = ""

\* no page is followed
NoCaller == caller = "none" /\ CallerStart

placeVars == <<ppc, cand, probes, abandoned, opened, pnote>>

NoAnswer == [call |-> "none", answer |-> FALSE]

\* line 158 is reached: tryOpenFirstResult is about to make its first check
PlaceStart ==
    /\ cand = 0
    /\ probes = {}
    /\ abandoned = {}
    /\ opened = FALSE
    /\ pnote = NoAnswer

\* the open-place step is not followed call by call
NoPlaceStep == ppc = "none" /\ PlaceStart

pollVars == <<pollPc, waited, maxWaitMs, intervalMs, lastJson, finalJson,
              pollReply, timedOut>>

\* JSON values, each tagged with its type: null, and undefined for a property
\* that is not there
JNull == [t |-> "null"]
Absent == [t |-> "undefined"]

NoReply == [status |-> 0, list |-> <<>>]

\* pollOutscraper is entered: const started = Date.now(); let lastJson = null
PollStart ==
    /\ waited = 0
    /\ lastJson = JNull
    /\ finalJson = JNull
    /\ pollReply = NoReply
    /\ timedOut = FALSE

\* no poll is followed
NoPoll == pollPc = "none" /\ maxWaitMs = 0 /\ intervalMs = 0 /\ PollStart

Init ==
    /\ impl \in {"server", "scraper"}
    /\ maxReviews \in 1..MaxMaxReviews
    /\ timeoutMs \in 1..MaxTimeout
    /\ OperationStart
    /\ ServerStart
    /\ clientQueries = {}
    /\ NoOperations
    /\ NoCaller
    /\ NoPlaceStep
    /\ NoPoll

\* the process state around the operation; no step of the operation writes it
serverVars == <<clientQueries, now, cache, query, hpc, responses, scrapeOutcome,
                scrapeArgs, pollVars>>
queryVars == <<impl, maxReviews, timeoutMs, serverVars, ops, callerVars,
               placeVars>>
sessionVars == <<browser, context, launches, contextCloses, browserCloses>>
loopVars == <<out, stagnation, lastCount>>
navVars == <<onPlace, visited, placeChecks>>
historyVars == <<firstSeen, idleRun, deadlineInNav, stopCause, collected,
                 navVars>>

\* the step being taken is no best-effort step and no first look for cards
NoNote == bestEffort' = NoEffort /\ firstLook' = "none" /\ look' = NoLook

\* time passes while the operation waits on the driver; the clock is last read
\* by the loop condition, so its later values are not tracked
Tick ==
    /\ pc \in NavPcs \cup LoopPcs
    /\ elapsed < MaxElapsed
    /\ elapsed' = elapsed + 1
    /\ deadlineInNav' = (deadlineInNav \/ (elapsed' > timeoutMs /\ pc \in NavPcs))
    /\ UNCHANGED <<queryVars, pc, sessionVars, variant, cardsLocator, loopVars,
                   placeUrl, errKind, outcome, result,
                   firstSeen, idleRun, stopCause, collected, navVars,
                   bestEffort, firstLook, look>>

---------------------------------------------------------------------------
(* backend/server.js: scrapeGoogleReviews *)

\* a throw inside the try block: control goes to the catch clause
Throw(kind) ==
    /\ pc' = "catch"
    /\ errKind' = kind

\* const browser = await chromium.launch(...)
Launch ==
    /\ impl = "server" /\ pc = "launch"
    /\ \/ /\ browser' = "open"
          /\ launches' = launches + 1
          /\ pc' = "newContext"
          /\ UNCHANGED <<errKind, outcome>>
       \/ \* launch rejects: nothing was acquired, the rejection leaves the function
          /\ pc' = "done"
          /\ errKind' = "DriverFailure"
          /\ outcome' = "error"
          /\ UNCHANGED <<browser, launches>>
    /\ UNCHANGED <<queryVars, elapsed, context, contextCloses, browserCloses,
                   variant, cardsLocator, loopVars, placeUrl, result, historyVars>>
    /\ NoNote

\* const context = await browser.newContext(...)   (before the try block)
NewContext ==
    /\ impl = "server" /\ pc = "newContext"
    /\ \/ /\ context' = "open"
          /\ pc' = "newPage"
          /\ UNCHANGED <<errKind, outcome>>
       \/ \* newContext rejects outside the try: no handler closes the browser
          /\ pc' = "done"
          /\ errKind' = "DriverFailure"
          /\ outcome' = "error"
          /\ UNCHANGED context
    /\ UNCHANGED <<queryVars, elapsed, browser, launches, contextCloses,
                   browserCloses, variant, cardsLocator, loopVars, placeUrl,
                   result, historyVars>>
    /\ NoNote

\* const page = await context.newPage()   (before the try block)
NewPage ==
    /\ impl = "server" /\ pc = "newPage"
    /\ \/ /\ pc' = "goto"
          /\ variant' = 1
          /\ UNCHANGED <<errKind, outcome>>
       \/ /\ pc' = "done"
          /\ errKind' = "DriverFailure"
          /\ outcome' = "error"
          /\ UNCHANGED variant
    /\ UNCHANGED <<queryVars, elapsed, sessionVars, cardsLocator, loopVars,
                   placeUrl, result, historyVars>>
    /\ NoNote

\* await page.goto(url, ...) for the current search variant
Goto ==
    /\ impl = "server" /\ pc = "goto"
    /\ \/ pc' = "consent" /\ UNCHANGED errKind
       \/ Throw("DriverFailure")
    /\ visited' = Append(visited, variant)
    /\ NoNote
    /\ UNCHANGED <<queryVars, elapsed, sessionVars, variant, cardsLocator,
                   loopVars, placeUrl, outcome, result,
                   firstSeen, idleRun, deadlineInNav, stopCause, collected,
                   onPlace, placeChecks>>

\* await maybeDismissConsent().catch(() => {})
\* (a click that rejects is caught inside, a rejection of f.$ at the call site)
MaybeDismissConsent ==
    /\ impl = "server" /\ pc = "consent"
    /\ \E page \in ConsentPages : \E clickRejects \in BOOLEAN :
         LET did == ConsentClicks(page.top, page.frames)
         IN  /\ clickRejects => did.clicked # <<>>
             /\ bestEffort' = [step |-> "consent", page |-> page,
                               clicked |-> did.clicked,
                               threw |-> did.threw \/ clickRejects]
    /\ firstLook' = "none"
    /\ look' = NoLook
    /\ pc' = "openPlace"
    /\ UNCHANGED <<queryVars, elapsed, sessionVars, variant, cardsLocator,
                   loopVars, placeUrl, errKind, outcome, result, historyVars>>

\* TryOpenFirstResult where the operation goes on to the reviews although no
\* variant led to a place page
TryOpenFirstResult_GoesOn ==
    /\ impl = "server" /\ pc = "openPlace"
    /\ onPlace' \in BOOLEAN
    /\ IF onPlace' \/ variant >= NumSearchVariants
       THEN pc' = "openReviews" /\ UNCHANGED <<variant, errKind>>
       ELSE pc' = "goto" /\ variant' = variant + 1 /\ UNCHANGED errKind
    /\ placeChecks' = placeChecks + 1
    /\ NoNote
    /\ UNCHANGED <<queryVars, elapsed, sessionVars, cardsLocator, loopVars,
                   placeUrl, outcome, result,
                   firstSeen, idleRun, deadlineInNav, stopCause, collected,
                   visited>>

\* onPlace = (await tryOpenFirstResult()) || (await waitForPlaceUI());
\* if (onPlace) break;  ... if (!onPlace) throw new Error("Could not open a place page.")
TryOpenFirstResult ==
    /\ impl = "server" /\ pc = "openPlace"
    /\ onPlace' \in BOOLEAN
    /\ IF onPlace'
       THEN pc' = "openReviews" /\ UNCHANGED <<variant, errKind>>
       ELSE IF variant < NumSearchVariants
            THEN pc' = "goto" /\ variant' = variant + 1 /\ UNCHANGED errKind
            ELSE Throw("NavigationFailed") /\ UNCHANGED variant
    /\ placeChecks' = placeChecks + 1
    /\ NoNote
    /\ UNCHANGED <<queryVars, elapsed, sessionVars, cardsLocator, loopVars,
                   placeUrl, outcome, result,
                   firstSeen, idleRun, deadlineInNav, stopCause, collected,
                   visited>>

\* await openReviews()   (every driver call in it is caught)
OpenReviews ==
    /\ impl = "server" /\ pc = "openReviews"
    /\ \E visible \in SUBSET ReviewControls : \E clickRejects \in BOOLEAN :
         LET clicked == FirstVisible(visible, 1)
         IN  /\ clickRejects => clicked # <<>>
             /\ bestEffort' = [step |-> "openReviews", page |-> visible,
                               clicked |-> clicked, threw |-> clickRejects]
    /\ firstLook' = "none"
    /\ look' = NoLook
    /\ pc' = "findCards"
    /\ UNCHANGED <<queryVars, elapsed, sessionVars, variant, cardsLocator,
                   loopVars, placeUrl, errKind, outcome, result, historyVars>>

\* the two passes over cardSelectors; if (!cardsLocator) throw new Error("Review cards not found")
FindCards ==
    /\ impl = "server" /\ pc = "findCards"
    /\ \E r \in Renderings : \E found \in {0} \cup {Cards[i].sel : i \in r} :
         /\ IF found = 0
            THEN Throw("ReviewsNotFound") /\ UNCHANGED cardsLocator
            ELSE pc' = "scroller" /\ cardsLocator' = found /\ UNCHANGED errKind
         /\ firstLook' = IF NodesFrom(1, r, 1..NumCardSelectors) = <<>>
                         THEN "empty" ELSE "cards"
    /\ look' = NoLook
    /\ bestEffort' = NoEffort
    /\ UNCHANGED <<queryVars, elapsed, sessionVars, variant, loopVars, placeUrl,
                   outcome, result,
                   firstSeen, idleRun, deadlineInNav, stopCause, collected,
                   navVars>>

\* const scroller = await cardsLocator.first().evaluateHandle(...)
FindScroller ==
    /\ impl = "server" /\ pc = "scroller"
    /\ \/ pc' = "sort" /\ UNCHANGED errKind
       \/ Throw("DriverFailure")
    /\ UNCHANGED <<queryVars, elapsed, sessionVars, variant, cardsLocator,
                   loopVars, placeUrl, outcome, result, historyVars>>
    /\ NoNote

\* SortNewest where a click that rejects is not caught
SortNewest_Uncaught ==
    /\ impl = "server" /\ pc = "sort"
    /\ \E page \in SortPages : \E clickRejects \in BOOLEAN :
         LET clicked == SortClicks(page)
         IN  /\ clickRejects => clicked # <<>>
             /\ bestEffort' = [step |-> "sort", page |-> page,
                               clicked |-> clicked, threw |-> clickRejects]
             /\ IF clickRejects
                THEN Throw("DriverFailure")
                ELSE pc' = "loopHead" /\ UNCHANGED errKind
    /\ firstLook' = "none"
    /\ look' = NoLook
    /\ UNCHANGED <<queryVars, elapsed, sessionVars, variant, cardsLocator,
                   loopVars, placeUrl, outcome, result, historyVars>>

\* the sort block: every driver call in it is caught
SortNewest ==
    /\ impl = "server" /\ pc = "sort"
    /\ \E page \in SortPages : \E clickRejects \in BOOLEAN :
         LET clicked == SortClicks(page)
         IN  /\ clickRejects => clicked # <<>>
             /\ bestEffort' = [step |-> "sort", page |-> page,
                               clicked |-> clicked, threw |-> clickRejects]
    /\ firstLook' = "none"
    /\ look' = NoLook
    /\ pc' = "loopHead"
    /\ UNCHANGED <<queryVars, elapsed, sessionVars, variant, cardsLocator,
                   loopVars, placeUrl, errKind, outcome, result, historyVars>>

\* LoopHead where an exhausted budget is thrown instead of ending the loop
LoopHead_TimeoutThrows ==
    /\ impl = "server" /\ pc = "loopHead"
    /\ IF Len(out) < maxReviews /\ elapsed < timeoutMs
       THEN pc' = "extract" /\ UNCHANGED <<stopCause, errKind>>
       ELSE IF Len(out) >= maxReviews
            THEN pc' = "share" /\ stopCause' = "max" /\ UNCHANGED errKind
            ELSE Throw("Timeout") /\ stopCause' = "time"
    /\ UNCHANGED <<queryVars, elapsed, sessionVars, variant, cardsLocator,
                   loopVars, placeUrl, outcome, result,
                   firstSeen, idleRun, deadlineInNav, collected, navVars>>
    /\ NoNote

\* while (texts.size < maxReviews && Date.now() - start < timeoutMs)
LoopHead ==
    /\ impl = "server" /\ pc = "loopHead"
    /\ IF Len(out) < maxReviews /\ elapsed < timeoutMs
       THEN pc' = "extract" /\ UNCHANGED stopCause
       ELSE /\ pc' = "share"
            /\ stopCause' = IF Len(out) >= maxReviews THEN "max" ELSE "time"
    /\ UNCHANGED <<queryVars, elapsed, sessionVars, variant, cardsLocator,
                   loopVars, placeUrl, errKind, outcome, result,
                   firstSeen, idleRun, deadlineInNav, collected, navVars>>
    /\ NoNote

\* history: consecutive iterations without growth of the unique count, counted
\* up to StagnationLimit
NextIdleRun(grew, run) ==
    IF grew THEN 0 ELSE IF run < StagnationLimit THEN run + 1 ELSE run

\* the streak update of one iteration
NextStagnation(countNow, last, streak) ==
    IF countNow > last THEN 0 ELSE streak + 1

\* one iteration up to the break: expand "More", cardsLocator.evaluateAll,
\* texts.add, the streak update, if (texts.size >= maxReviews || stagnation >= 6) break
Extract ==
    /\ impl = "server" /\ pc = "extract"
    /\ \/ \E r \in Renderings :
            LET chunk == EvaluateAll(NodesFrom(1, r, {cardsLocator}))
                texts == AddAll(out, chunk)
                countNow == Len(texts)
                streak == NextStagnation(countNow, lastCount, stagnation)
            IN  /\ out' = texts
                /\ stagnation' = streak
                /\ lastCount' = countNow
                /\ firstSeen' = AppendUniques(firstSeen, chunk)
                /\ idleRun' = NextIdleRun(Len(texts) > Len(out), idleRun)
                /\ collected' = TRUE
                /\ IF countNow >= maxReviews \/ streak >= StagnationLimit
                   THEN /\ pc' = "share"
                        /\ stopCause' = IF countNow >= maxReviews THEN "max"
                                        ELSE "stagnation"
                   ELSE pc' = "scroll" /\ UNCHANGED stopCause
                /\ look' = LookAt(r, {cardsLocator}, chunk)
                /\ \E moreRejects \in BOOLEAN :   \* page.$$eval(More).catch(()=>{})
                     bestEffort' = [NoEffort EXCEPT !.step = "more",
                                                    !.threw = moreRejects]
                /\ UNCHANGED errKind
       \/ \* cardsLocator.evaluateAll rejects
          /\ Throw("DriverFailure")
          /\ look' = NoLook
          /\ bestEffort' = NoEffort
          /\ UNCHANGED <<loopVars, firstSeen, idleRun, stopCause, collected>>
    /\ UNCHANGED <<queryVars, elapsed, sessionVars, variant, cardsLocator,
                   placeUrl, outcome, result, deadlineInNav, navVars>>
    /\ firstLook' = "none"

\* Scroll where the iteration ends by opening the reviews view again
Scroll_Reopens ==
    /\ impl = "server" /\ pc = "scroll"
    /\ \/ pc' = "openReviews" /\ UNCHANGED errKind
       \/ Throw("DriverFailure")
    /\ UNCHANGED <<queryVars, elapsed, sessionVars, variant, cardsLocator,
                   loopVars, placeUrl, outcome, result, historyVars>>
    /\ NoNote

\* await scroller.evaluate(...); await wait(900)
Scroll ==
    /\ impl = "server" /\ pc = "scroll"
    /\ \/ pc' = "loopHead" /\ UNCHANGED errKind
       \/ Throw("DriverFailure")
    /\ UNCHANGED <<queryVars, elapsed, sessionVars, variant, cardsLocator,
                   loopVars, placeUrl, outcome, result, historyVars>>
    /\ NoNote

\* GetShareUrl where a driver call that rejects is not caught
GetShareUrl_Uncaught ==
    /\ impl = "server" /\ pc = "share"
    /\ \E url \in ShareOutcomes :
         /\ placeUrl' = url.value
         /\ bestEffort' = [NoEffort EXCEPT !.step = "share", !.threw = url.threw]
         /\ IF url.threw THEN Throw("DriverFailure")
            ELSE pc' = "close" /\ UNCHANGED errKind
    /\ firstLook' = "none"
    /\ look' = NoLook
    /\ UNCHANGED <<queryVars, elapsed, sessionVars, variant, cardsLocator,
                   loopVars, outcome, result, historyVars>>

\* the share-URL block: try { ... } catch {}, every driver call caught
GetShareUrl ==
    /\ impl = "server" /\ pc = "share"
    /\ \E url \in ShareOutcomes :
         /\ placeUrl' = url.value
         /\ bestEffort' = [NoEffort EXCEPT !.step = "share", !.threw = url.threw]
    /\ firstLook' = "none"
    /\ look' = NoLook
    /\ pc' = "close"
    /\ UNCHANGED <<queryVars, elapsed, sessionVars, variant, cardsLocator,
                   loopVars, errKind, outcome, result, historyVars>>

\* CloseOnSuccess where control then reaches the catch clause, which closes again
CloseOnSuccess_ThenCatch ==
    /\ impl = "server" /\ pc = "close"
    /\ context' = "closed"
    /\ browser' = "closed"
    /\ contextCloses' = contextCloses + 1
    /\ browserCloses' = browserCloses + 1
    /\ Throw("DriverFailure")
    /\ UNCHANGED <<queryVars, elapsed, launches, variant, cardsLocator, loopVars,
                   placeUrl, outcome, result, historyVars>>
    /\ NoNote

\* await context.close().catch(()=>{}); await browser.close().catch(()=>{});
CloseOnSuccess ==
    /\ impl = "server" /\ pc = "close"
    /\ context' = "closed"
    /\ browser' = "closed"
    /\ contextCloses' = contextCloses + 1
    /\ browserCloses' = browserCloses + 1
    /\ pc' = "return"
    /\ UNCHANGED <<queryVars, elapsed, launches, variant, cardsLocator, loopVars,
                   placeUrl, errKind, outcome, result, historyVars>>
    /\ NoNote

\* Return where the returned texts are taken out of the Set
Return_Drains ==
    /\ impl = "server" /\ pc = "return"
    /\ result' = ToRecords(out, SourceUrl(placeUrl), maxReviews)
    /\ out' = SubSeq(out, Len(result') + 1, Len(out))
    /\ outcome' = "ok"
    /\ pc' = "done"
    /\ UNCHANGED <<queryVars, elapsed, sessionVars, variant, cardsLocator,
                   stagnation, lastCount, placeUrl, errKind, historyVars>>
    /\ NoNote

\* return Array.from(texts).slice(0, maxReviews).map(...)
Return ==
    /\ impl = "server" /\ pc = "return"
    /\ result' = ToRecords(out, SourceUrl(placeUrl), maxReviews)
    /\ outcome' = "ok"
    /\ pc' = "done"
    /\ UNCHANGED <<queryVars, elapsed, sessionVars, variant, cardsLocator,
                   loopVars, placeUrl, errKind, historyVars>>
    /\ NoNote

\* CatchClose where the texts gathered so far are returned instead of the
\* error being thrown on
CatchClose_ReturnsPartial ==
    /\ impl = "server" /\ pc = "catch"
    /\ context' = "closed"
    /\ browser' = "closed"
    /\ contextCloses' = contextCloses + 1
    /\ browserCloses' = browserCloses + 1
    /\ result' = ToRecords(out, SourceUrl(placeUrl), maxReviews)
    /\ outcome' = "ok"
    /\ pc' = "done"
    /\ UNCHANGED <<queryVars, elapsed, launches, variant, cardsLocator, loopVars,
                   placeUrl, errKind, historyVars>>
    /\ NoNote

\* catch (e) { await context.close()...; await browser.close()...; throw e; }
CatchClose ==
    /\ impl = "server" /\ pc = "catch"
    /\ context' = "closed"
    /\ browser' = "closed"
    /\ contextCloses' = contextCloses + 1
    /\ browserCloses' = browserCloses + 1
    /\ outcome' = "error"
    /\ pc' = "done"
    /\ UNCHANGED <<queryVars, elapsed, launches, variant, cardsLocator, loopVars,
                   placeUrl, errKind, result, historyVars>>
    /\ NoNote

ServerNext ==
    \/ Launch \/ NewContext \/ NewPage \/ Goto \/ MaybeDismissConsent
    \/ TryOpenFirstResult \/ OpenReviews \/ FindCards \/ FindScroller
    \/ SortNewest \/ LoopHead \/ Extract \/ Scroll \/ GetShareUrl
    \/ CloseOnSuccess \/ Return \/ CatchClose

---------------------------------------------------------------------------
(* backend/scrapers/googleScraper.js: scrapeGoogleReviews *)

\* a throw inside the try block: control goes to the finally clause
G_Throw(kind) ==
    /\ pc' = "finally"
    /\ errKind' = kind

\* const browser = await chromium.launch(...)
G_Launch ==
    /\ impl = "scraper" /\ pc = "launch"
    /\ \/ /\ browser' = "open"
          /\ launches' = launches + 1
          /\ pc' = "newContext"
          /\ UNCHANGED <<errKind, outcome>>
       \/ /\ pc' = "done"
          /\ errKind' = "DriverFailure"
          /\ outcome' = "error"
          /\ UNCHANGED <<browser, launches>>
    /\ UNCHANGED <<queryVars, elapsed, context, contextCloses, browserCloses,
                   variant, cardsLocator, loopVars, placeUrl, result, historyVars>>
    /\ NoNote

\* const context = await browser.newContext(...)   (before the try block)
G_NewContext ==
    /\ impl = "scraper" /\ pc = "newContext"
    /\ \/ /\ context' = "open"
          /\ pc' = "newPage"
          /\ UNCHANGED <<errKind, outcome>>
       \/ /\ pc' = "done"
          /\ errKind' = "DriverFailure"
          /\ outcome' = "error"
          /\ UNCHANGED context
    /\ UNCHANGED <<queryVars, elapsed, browser, launches, contextCloses,
                   browserCloses, variant, cardsLocator, loopVars, placeUrl,
                   result, historyVars>>
    /\ NoNote

\* const page = await context.newPage()   (before the try block)
G_NewPage ==
    /\ impl = "scraper" /\ pc = "newPage"
    /\ \/ /\ pc' = "goto"
          /\ UNCHANGED <<errKind, outcome>>
       \/ /\ pc' = "done"
          /\ errKind' = "DriverFailure"
          /\ outcome' = "error"
    /\ UNCHANGED <<queryVars, elapsed, sessionVars, variant, cardsLocator,
                   loopVars, placeUrl, result, historyVars>>
    /\ NoNote

\* a driver call of the navigation that is not caught: it resolves and the
\* function moves on to position next, or it rejects
G_Step(here, next) ==
    /\ impl = "scraper" /\ pc = here
    /\ \/ pc' = next /\ UNCHANGED errKind
       \/ G_Throw("DriverFailure")
    /\ UNCHANGED <<queryVars, elapsed, sessionVars, variant, cardsLocator,
                   loopVars, placeUrl, outcome, result,
                   firstSeen, idleRun, deadlineInNav, stopCause, collected>>
    /\ NoNote

\* await page.goto(mapsSearch, ...)
G_Goto ==
    /\ G_Step("goto", "clickFirst")
    /\ visited' = Append(visited, 1)
    /\ UNCHANGED <<onPlace, placeChecks>>

\* await firstCard.first().click({ timeout: 20000 })
G_ClickFirst == G_Step("clickFirst", "waitPanel") /\ UNCHANGED navVars

\* await page.waitForSelector('button[aria-label*="reviews"], ...')
G_WaitPanel ==
    /\ G_Step("waitPanel", "clickAll")
    /\ onPlace' = (pc' = "clickAll")
    /\ placeChecks' = placeChecks + 1
    /\ UNCHANGED visited

\* await allReviewsBtn.first().click({ timeout: 15000 })
G_ClickAllReviews == G_Step("clickAll", "sort") /\ UNCHANGED navVars

\* the sort block: every driver call in it is caught
G_SortNewest ==
    /\ impl = "scraper" /\ pc = "sort"
    /\ \E page \in SortPages : \E clickRejects \in BOOLEAN :
         LET clicked == SortClicks(page)
         IN  /\ clickRejects => clicked # <<>>
             /\ bestEffort' = [step |-> "sort", page |-> page,
                               clicked |-> clicked, threw |-> clickRejects]
    /\ firstLook' = "none"
    /\ look' = NoLook
    /\ pc' = "scrollerWait"
    /\ UNCHANGED <<queryVars, elapsed, sessionVars, variant, cardsLocator,
                   loopVars, placeUrl, errKind, outcome, result, historyVars>>

\* await scroller.first().waitFor({ timeout: 10000 })
G_ScrollerWait == G_Step("scrollerWait", "loopHead") /\ UNCHANGED navVars

\* while (loaded < maxReviews && Date.now() - start < timeoutMs)
G_LoopHead ==
    /\ impl = "scraper" /\ pc = "loopHead"
    /\ IF Len(out) < maxReviews /\ elapsed < timeoutMs
       THEN pc' = "extract" /\ UNCHANGED stopCause
       ELSE /\ pc' = "share"
            /\ stopCause' = IF Len(out) >= maxReviews THEN "max" ELSE "time"
    /\ UNCHANGED <<queryVars, elapsed, sessionVars, variant, cardsLocator,
                   loopVars, placeUrl, errKind, outcome, result,
                   firstSeen, idleRun, deadlineInNav, collected, navVars>>
    /\ NoNote

\* the selector of reviewCards: 'div[data-review-id], div[jscontroller][data-review-id]'
G_ReviewCardSels == {1, 3}

\* one iteration up to the breaks: reviewCards.count(), the streak update on
\* the card count, reviewCards.evaluateAll, append uniques,
\* if (loaded >= maxReviews) break; if (stagnation >= 6) break;
G_Extract ==
    /\ impl = "scraper" /\ pc = "extract"
    /\ \/ \E r \in Renderings :
            LET cards == NodesFrom(1, r, G_ReviewCardSels)
            IN  \E count \in {Len(cards), 0} :   \* .count().catch(()=>0)
                LET items == G_EvaluateAll(cards)
                    acc == AppendUniques(out, items)
                    loaded == Len(acc)
                    streak == IF count > lastCount THEN 0 ELSE stagnation + 1
                IN  /\ out' = acc
                    /\ stagnation' = streak
                    /\ lastCount' = IF count > lastCount THEN count ELSE lastCount
                    /\ firstSeen' = AppendUniques(firstSeen, items)
                    /\ idleRun' = NextIdleRun(Len(acc) > Len(out), idleRun)
                    /\ collected' = TRUE
                    /\ look' = LookAt(r, G_ReviewCardSels, items)
                    /\ firstLook' = IF collected THEN "none"
                                    ELSE IF cards = <<>> THEN "empty" ELSE "cards"
                    /\ IF loaded >= maxReviews \/ streak >= StagnationLimit
                       THEN /\ pc' = "share"
                            /\ stopCause' = IF loaded >= maxReviews THEN "max"
                                            ELSE "stagnation"
                       ELSE pc' = "scroll" /\ UNCHANGED stopCause
                    /\ UNCHANGED errKind
       \/ \* reviewCards.evaluateAll rejects
          /\ G_Throw("DriverFailure")
          /\ firstLook' = "none"
          /\ look' = NoLook
          /\ UNCHANGED <<loopVars, firstSeen, idleRun, stopCause, collected>>
    /\ UNCHANGED <<queryVars, elapsed, sessionVars, variant, cardsLocator,
                   placeUrl, outcome, result, deadlineInNav, navVars>>
    /\ bestEffort' = NoEffort

\* await scroller.evaluate(...); await sleep(900)
G_Scroll == G_Step("scroll", "loopHead") /\ UNCHANGED navVars

\* the share-URL block: try { ... } catch {}, every driver call caught
G_GetShareUrl ==
    /\ impl = "scraper" /\ pc = "share"
    /\ \E url \in ShareOutcomes :
         /\ placeUrl' = url.value
         /\ bestEffort' = [NoEffort EXCEPT !.step = "share", !.threw = url.threw]
    /\ firstLook' = "none"
    /\ look' = NoLook
    /\ pc' = "result"
    /\ UNCHANGED <<queryVars, elapsed, sessionVars, variant, cardsLocator,
                   loopVars, errKind, outcome, result, historyVars>>

\* const result = out.slice(0, maxReviews).map(...); return result;
G_Return ==
    /\ impl = "scraper" /\ pc = "result"
    /\ result' = G_ToRecords(out, placeUrl, maxReviews)
    /\ pc' = "finally"
    /\ UNCHANGED <<queryVars, elapsed, sessionVars, variant, cardsLocator,
                   loopVars, placeUrl, errKind, outcome, historyVars>>
    /\ NoNote

\* finally { await context.close().catch(()=>{}); await browser.close().catch(()=>{}); }
G_Finally ==
    /\ impl = "scraper" /\ pc = "finally"
    /\ context' = "closed"
    /\ browser' = "closed"
    /\ contextCloses' = contextCloses + 1
    /\ browserCloses' = browserCloses + 1
    /\ outcome' = IF errKind = "none" THEN "ok" ELSE "error"
    /\ pc' = "done"
    /\ UNCHANGED <<queryVars, elapsed, launches, variant, cardsLocator, loopVars,
                   placeUrl, errKind, result, historyVars>>
    /\ NoNote

ScraperNext ==
    \/ G_Launch \/ G_NewContext \/ G_NewPage \/ G_Goto \/ G_ClickFirst
    \/ G_WaitPanel \/ G_ClickAllReviews \/ G_SortNewest \/ G_ScrollerWait
    \/ G_LoopHead \/ G_Extract \/ G_Scroll \/ G_GetShareUrl \/ G_Return
    \/ G_Finally

Next == ServerNext \/ ScraperNext \/ Tick

Spec == Init /\ [][Next]_vars

---------------------------------------------------------------------------
(* backend/server.js: the /google-scrape route.  Here the operation is seen *)
(* from its caller: an awaited promise that resolves with a list of records *)
(* or rejects with an error.                                                *)

\* the variables of the scrape operation, one call and several
scrapeVars == <<impl, maxReviews, timeoutMs, pc, elapsed, browser, context,
                launches, contextCloses, browserCloses, variant, cardsLocator,
                out, stagnation, lastCount, placeUrl, errKind, outcome, result,
                firstSeen, idleRun, deadlineInNav, stopCause, collected,
                onPlace, visited, placeChecks, bestEffort, firstLook, look,
                ops>>

\* everything the route handler leaves alone
operationVars == <<scrapeVars, callerVars, placeVars, pollVars>>

Loud == <<"L","o","u","d">>
NameA == <<"A">>
CityB == <<" ","B">>
Blank == <<" ">>
Zero == <<"0">>
Word == <<"a","l","l">>
Huge == <<"9","9","9","9","9","9">>
MinusThree == <<"-","3">>
Two == <<"2">>
One == <<"1">>
NameWithBar == <<"A", "|", "B">>
CityC == <<"C">>
CityWithBar == <<"B", "|", "C">>

GetQuery(n, l, m, t, c, k) ==
    [name |-> n, location |-> l, max |-> m, timeout |-> t,
     nocache |-> c, keywords |-> k]

\* query strings (Empty: the parameter is absent): with and without
\* nocache and keywords, and with a name or a location missing
PlainQueries ==
    { GetQuery(NameA, CityB, Empty, Empty, Empty, Empty),
      GetQuery(NameA, CityB, Empty, Empty, One, Loud),
      GetQuery(NameA, CityB, Two, Two, Empty, Loud),
      GetQuery(Empty, CityB, Empty, Empty, Empty, Empty),
      GetQuery(Blank, CityB, Empty, Empty, Empty, Empty),
      GetQuery(NameA, Empty, Empty, Empty, Empty, Empty) }

\* query strings whose max and timeout are zero, no number, very large,
\* negative
NumberQueries ==
    { GetQuery(NameA, CityB, Empty, Empty, Empty, Empty),
      GetQuery(NameA, CityB, Zero, Word, Empty, Empty),
      GetQuery(NameA, CityB, Huge, Huge, Empty, Empty),
      GetQuery(NameA, CityB, MinusThree, MinusThree, One, Empty) }

\* query strings whose name or location contains the "|" of the cache key
SeparatorQueries ==
    { GetQuery(NameWithBar, CityC, Empty, Empty, Empty, Empty),
      GetQuery(NameA, CityWithBar, Empty, Empty, Empty, Empty),
      GetQuery(NameA, CityC, Empty, Empty, Empty, Empty),
      GetQuery(NameA, CityC, Two, Empty, Empty, Empty) }

\* the sets of query strings a run may draw its requests from
QueryMenus == {PlainQueries, NumberQueries, SeparatorQueries}

\* every query string a request may carry
Queries == UNION QueryMenus

\* the errors scrapeGoogleReviews rejects with (SetupFailure: newContext or
\* newPage rejected, before the try block is entered)
ErrorKinds ==
    {"NavigationFailed", "ReviewsNotFound", "DriverFailure", "SetupFailure"}

\* whether the call that ended with this outcome closed the browser it
\* launched: the success path and the catch clause do, a rejection before the
\* try block reaches neither
SessionReleased(kind) == kind # "SetupFailure"

ErrorMessage(kind) ==
    CASE kind = "NavigationFailed" -> "Could not open a place page."
      [] kind = "ReviewsNotFound" -> "Review cards not found"
      [] kind = "MissingParam" -> "Missing required query param"
      [] OTHER -> "driver error"

DigitChars == <<"0", "1", "2", "3", "4", "5", "6", "7", "8", "9">>

DigitValue(c) == CHOOSE d \in 0..9 : DigitChars[d + 1] = c

\* the leading decimal digits of s
RECURSIVE DigitsPrefix(_)
DigitsPrefix(s) ==
    IF s # <<>> /\ Head(s) \in Range(DigitChars)
    THEN <<Head(s)>> \o DigitsPrefix(Tail(s))
    ELSE <<>>

RECURSIVE ValueOf(_)
ValueOf(digits) ==
    IF digits = <<>> THEN 0
    ELSE ValueOf(SubSeq(digits, 1, Len(digits) - 1)) * 10
         + DigitValue(digits[Len(digits)])

\* parseInt(s, 10): <<n>> for a number, <<>> for NaN
ParseInt(s) ==
    LET t == TrimStart(s)
        signed == t # <<>> /\ Head(t) \in {"-", "+"}
        digits == DigitsPrefix(IF signed THEN Tail(t) ELSE t)
    IN  IF digits = <<>> THEN <<>>
        ELSE IF signed /\ Head(t) = "-" THEN <<0 - ValueOf(digits)>>
        ELSE <<ValueOf(digits)>>

Min(a, b) == IF a < b THEN a ELSE b

\* Math.min(parseInt(param || String(dflt), 10) || dflt, cap)
ParseBounded(param, dflt, cap) ==
    LET parsed == IF param = Empty THEN <<dflt>> ELSE ParseInt(param)
        value == IF parsed = <<>> \/ parsed[1] = 0 THEN dflt ELSE parsed[1]
    IN  Min(value, cap)

\* `${n}` for an integer n
RECURSIVE NumberToString(_)
NumberToString(n) ==
    IF n < 0 THEN <<"-">> \o NumberToString(0 - n)
    ELSE IF n < 10 THEN <<DigitChars[n + 1]>>
    ELSE NumberToString(n \div 10) \o <<DigitChars[(n % 10) + 1]>>

\* required without the trim()
Required_NoTrim(v) == v

\* required(q, name): the trimmed value; Empty stands for the throw
Required(v) == Trim(v)

\* `gs:${name}|${location}|${max}`
CacheKey(name, location, max) ==
    <<"g", "s", ":">> \o name \o <<"|">> \o location \o <<"|">>
        \o NumberToString(max)

\* getCache without the age test
Fresh_NoExpiry(k) == {e \in cache : e.k = k}

\* getCache(k): the entries found for k and still fresh (at most one)
Fresh(k) == {e \in cache : e.k = k /\ ~(now - e.ts > TTL_MS)}

\* the test where an empty list counts as nothing cached
IsMiss_EmptyList(hits) == hits = {} \/ \A e \in hits : e.v = <<>>

\* if (!base): null from getCache is a miss; an array, empty or not, is not
IsMiss(hits) == hits = {}

\* the Map after getCache(k): an expired entry for k is deleted
AfterGet(k) == {e \in cache : e.k # k \/ ~(now - e.ts > TTL_MS)}

\* the Map after setCache(k, v) on Map m (by: the request that stored the
\* entry, kept for the properties)
AfterSet(m, k, v, by) ==
    {e \in m : e.k # k} \cup {[k |-> k, ts |-> now, v |-> v, by |-> by]}

\* s.split(",")
RECURSIVE Split(_)
Split(s) ==
    IF \A i \in 1..Len(s) : s[i] # ","
    THEN <<s>>
    ELSE LET i == CHOOSE j \in 1..Len(s) :
                      s[j] = "," /\ \A h \in 1..(j - 1) : s[h] # ","
         IN  <<SubSeq(s, 1, i - 1)>> \o Split(SubSeq(s, i + 1, Len(s)))

NonEmpty(s) == s # Empty

\* keywordsStr ? keywordsStr.split(",").map(s => s.trim()).filter(Boolean) : []
Keywords(param) ==
    LET keywordsStr == ToLowerCase(param)
        parts == Split(keywordsStr)
    IN  IF keywordsStr = Empty THEN <<>>
        ELSE SelectSeq([i \in 1..Len(parts) |-> Trim(parts[i])], NonEmpty)

\* s.includes(k)
Includes(s, k) ==
    \E i \in 0..(Len(s) - Len(k)) : SubSeq(s, i + 1, i + Len(k)) = k

\* base.filter(r => keywords.some(k => r.text.toLowerCase().includes(k)))
RECURSIVE FilterByKeywords(_, _)
FilterByKeywords(base, keywords) ==
    IF base = <<>> THEN <<>>
    ELSE (IF \E i \in 1..Len(keywords) :
                 Includes(ToLowerCase(Head(base).text), keywords[i])
          THEN <<Head(base)>> ELSE <<>>)
         \o FilterByKeywords(Tail(base), keywords)

\* let result = base; if (keywords.length) result = base.filter(...)
ResultFor(base, keywords) ==
    IF Len(keywords) > 0 THEN FilterByKeywords(base, keywords) ELSE base

\* what a scrape may resolve with for maxReviews = max
ScrapeLists(max) ==
    LET pool == ToRecords(<<GreatPlace, TooLoud>>, ShareUrl, MaxRendered)
    IN  {Take(pool, n) : n \in 0..(IF max < 0 THEN 0 ELSE Min(max, Len(pool)))}

\* catch clause where the error is thrown on instead of being answered
CatchClause_Rethrows(r, kind) ==
    UNCHANGED responses

\* catch (e) { console.error(...); res.status(500).json({ error, message }) }
CatchClause(r, kind) ==
    responses' = [responses EXCEPT ![r] =
                     Append(@, [status |-> 500, json |-> <<>>,
                                error |-> "google-scrape failed",
                                message |-> ErrorMessage(kind)])]

\* res.json(result)
SendJson(r, list) ==
    responses' = [responses EXCEPT ![r] =
                     Append(@, [status |-> 200, json |-> list,
                                error |-> "", message |-> ""])]

\* a request arrives: the handler runs up to its first await, or to its end
\* when it has nothing to await (requests are numbered in order of arrival)
Receive(r) ==
    /\ hpc[r] = "waiting"
    /\ \A earlier \in 1..(r - 1) : hpc[earlier] # "waiting"
    /\ \E q \in clientQueries :
         LET name == Required(q.name)
             location == Required(q.location)
             max == ParseBounded(q.max, DefaultMax, MaxCap)
             timeout == ParseBounded(q.timeout, DefaultTimeout, TimeoutCap)
             noCache == Trim(q.nocache) = One
             keywords == Keywords(q.keywords)
             cacheKey == CacheKey(name, location, max)
             hits == IF noCache THEN {} ELSE Fresh(cacheKey)
         IN  /\ query' = [query EXCEPT ![r] = q]
             /\ IF name = Empty \/ location = Empty
                THEN \* required() throws
                     /\ CatchClause(r, "MissingParam")
                     /\ hpc' = [hpc EXCEPT ![r] = "done"]
                     /\ UNCHANGED <<cache, scrapeArgs>>
                ELSE /\ cache' = IF noCache THEN cache ELSE AfterGet(cacheKey)
                     /\ IF ~IsMiss(hits)
                        THEN /\ SendJson(r, ResultFor((CHOOSE e \in hits : TRUE).v,
                                                     keywords))
                             /\ hpc' = [hpc EXCEPT ![r] = "done"]
                             /\ UNCHANGED scrapeArgs
                        ELSE /\ hpc' = [hpc EXCEPT ![r] = "scraping"]
                             /\ scrapeArgs' = [scrapeArgs EXCEPT ![r] =
                                    [name |-> name, location |-> location,
                                     maxReviews |-> max, timeoutMs |-> timeout]]
                             /\ UNCHANGED responses
    /\ UNCHANGED <<operationVars, clientQueries, now, scrapeOutcome>>

\* await scrapeGoogleReviews(...) resolves: setCache, filter, res.json
ScrapeResolves(r) ==
    /\ hpc[r] = "scraping"
    /\ LET q == query[r]
           max == ParseBounded(q.max, DefaultMax, MaxCap)
           cacheKey == CacheKey(Required(q.name), Required(q.location), max)
       IN  \E base \in ScrapeLists(max) :
             /\ cache' = AfterSet(cache, cacheKey, base, r)
             /\ SendJson(r, ResultFor(base, Keywords(q.keywords)))
    /\ scrapeOutcome' = [scrapeOutcome EXCEPT ![r] = "ok"]
    /\ hpc' = [hpc EXCEPT ![r] = "done"]
    /\ UNCHANGED <<operationVars, clientQueries, now, query, scrapeArgs>>

\* ScrapeRejects where the failure also drops the entry of the key
ScrapeRejects_Evicts(r) ==
    /\ hpc[r] = "scraping"
    /\ \E kind \in ErrorKinds :
         /\ CatchClause(r, kind)
         /\ scrapeOutcome' = [scrapeOutcome EXCEPT ![r] = kind]
    /\ cache' = {e \in cache :
                    e.k # CacheKey(Required(query[r].name),
                                   Required(query[r].location),
                                   ParseBounded(query[r].max, DefaultMax, MaxCap))}
    /\ hpc' = [hpc EXCEPT ![r] = "done"]
    /\ UNCHANGED <<operationVars, clientQueries, now, query, scrapeArgs>>

\* await scrapeGoogleReviews(...) rejects: control goes to the catch clause
ScrapeRejects(r) ==
    /\ hpc[r] = "scraping"
    /\ \E kind \in ErrorKinds :
         /\ CatchClause(r, kind)
         /\ scrapeOutcome' = [scrapeOutcome EXCEPT ![r] = kind]
    /\ hpc' = [hpc EXCEPT ![r] = "done"]
    /\ UNCHANGED <<operationVars, clientQueries, now, cache, query, scrapeArgs>>

\* time passes in the process
ClockTick ==
    /\ now < MaxNow
    /\ now' = now + 1
    /\ UNCHANGED <<operationVars, clientQueries, cache, query, hpc, responses,
                   scrapeOutcome, scrapeArgs>>

HandlerInit ==
    /\ impl = "server"
    /\ maxReviews = 1
    /\ timeoutMs = 1
    /\ OperationStart
    /\ ServerStart
    /\ clientQueries \in QueryMenus
    /\ NoOperations
    /\ NoCaller
    /\ NoPlaceStep
    /\ NoPoll

HandlerNext ==
    \/ \E r \in Requests : Receive(r) \/ ScrapeResolves(r) \/ ScrapeRejects(r)
    \/ ClockTick

HandlerSpec == HandlerInit /\ [][HandlerNext]_vars

---------------------------------------------------------------------------
(* Several calls of scrapeGoogleReviews in flight in one process, each on   *)
(* its own page, interleaved at their awaits.  Every name the function body *)
(* declares (browser, context, page, texts, stagnation, lastCount,          *)
(* placeUrl) is a local of the call; the clock is left out.                 *)

Operations == 1..MaxOperations

\* what the page of one call shows at its successive observations (the last
\* rendering stays once the page has nothing more to load)
Feeds == << <<{1}, {1, 4}>>, <<{2, 3}>>, <<{4}, {2, 4}>> >>

\* the rendering after n scrolls
Shown(feed, n) == feed[IF n + 1 < Len(feed) THEN n + 1 ELSE Len(feed)]

\* server.js: the first selector of cardSelectors that matches a rendered card
CardsLocatorOf(feed) ==
    CHOOSE sel \in 1..NumCardSelectors :
        /\ \E i \in feed[1] : Cards[i].sel = sel
        /\ \A i \in feed[1] : Cards[i].sel >= sel

\* one pass of the loop body up to the breaks, on the locals in st
Iteration(feed, st) ==
    LET r == Shown(feed, st.scrolls)
    IN  IF impl = "server"
        THEN LET chunk == EvaluateAll(NodesFrom(1, r, {CardsLocatorOf(feed)}))
                 texts == AddAll(st.texts, chunk)
                 streak == NextStagnation(Len(texts), st.lastCount, st.stagnation)
             IN  [texts |-> texts, stagnation |-> streak, lastCount |-> Len(texts),
                  stop |-> Len(texts) >= maxReviews \/ streak >= StagnationLimit]
        ELSE LET cards == NodesFrom(1, r, G_ReviewCardSels)
                 count == Len(cards)
                 acc == AppendUniques(st.texts, G_EvaluateAll(cards))
                 streak == IF count > st.lastCount THEN 0 ELSE st.stagnation + 1
             IN  [texts |-> acc, stagnation |-> streak,
                  lastCount |-> IF count > st.lastCount THEN count ELSE st.lastCount,
                  stop |-> Len(acc) >= maxReviews \/ streak >= StagnationLimit]

\* the locals of a call before its first statement
FreshCall(feed) ==
    [feed |-> feed, pc |-> "launch", browser |-> "none", scrolls |-> 0,
     texts |-> <<>>, stagnation |-> 0, lastCount |-> 0, placeUrl |-> "",
     outcome |-> "running", result |-> <<>>]

\* the texts variable of a module that kept one Set for all calls
TextsOf_ModuleLevel(o) == ops[1].texts

\* const texts = new Set() inside the function body: the Set of call o
\* (googleScraper.js: const out = [])
TextsOf_Call(o) == ops[o].texts

\* the records call o returns
RecordsOf(o) ==
    IF impl = "server"
    THEN ToRecords(ops[o].texts, SourceUrl(ops[o].placeUrl), maxReviews)
    ELSE G_ToRecords(ops[o].texts, ops[o].placeUrl, maxReviews)

\* call o runs from one await to the next
OperationStep(o) ==
    LET me == ops[o]
        go(next) == ops' = [ops EXCEPT ![o].pc = next]
    IN  /\ CASE me.pc = "launch" ->
                   ops' = [ops EXCEPT ![o].pc = "navigate", ![o].browser = "open"]
              [] me.pc = "navigate" ->
                   \/ go("extract")
                   \/ go("catch")       \* a driver call rejects, or no place page
              [] me.pc = "extract" ->
                   \/ LET st == Iteration(me.feed, [me EXCEPT !.texts = TextsOf_Call(o)])
                      IN  ops' = [ops EXCEPT ![o].texts = st.texts,
                                             ![o].stagnation = st.stagnation,
                                             ![o].lastCount = st.lastCount,
                                             ![o].pc = IF st.stop THEN "share"
                                                       ELSE "scroll"]
                   \/ go("catch")       \* evaluateAll rejects
              [] me.pc = "scroll" ->
                   ops' = [ops EXCEPT ![o].scrolls = @ + 1, ![o].pc = "extract"]
              [] me.pc = "share" ->
                   \E url \in {"", ShareUrl} :
                       ops' = [ops EXCEPT ![o].placeUrl = url, ![o].pc = "close"]
              [] me.pc = "close" ->
                   ops' = [ops EXCEPT ![o].browser = "closed",
                                      ![o].result = RecordsOf(o),
                                      ![o].outcome = "ok", ![o].pc = "done"]
              [] me.pc = "catch" ->
                   ops' = [ops EXCEPT ![o].browser = "closed",
                                      ![o].outcome = "error", ![o].pc = "done"]
              [] OTHER -> FALSE
        /\ UNCHANGED <<impl, maxReviews, timeoutMs, pc, elapsed, browser, context,
                       launches, contextCloses, browserCloses, variant,
                       cardsLocator, out, stagnation, lastCount, placeUrl,
                       errKind, outcome, result, historyVars, bestEffort,
                       firstLook, look, serverVars, callerVars, placeVars>>

ConcurrentInit ==
    /\ impl \in {"server", "scraper"}
    /\ maxReviews \in 1..MaxMaxReviews
    /\ timeoutMs = 1
    /\ OperationStart
    /\ ServerStart
    /\ clientQueries = {}
    /\ NoCaller
    /\ NoPlaceStep
    /\ NoPoll
    /\ \E page \in [Operations -> 1..Len(Feeds)] :
         \* calls for different queries, numbered in the order of their pages
         /\ \A o, other \in Operations : o < other => page[o] < page[other]
         /\ ops = [o \in Operations |-> FreshCall(Feeds[page[o]])]

ConcurrentNext == \E o \in Operations : OperationStep(o)

ConcurrentSpec == ConcurrentInit /\ [][ConcurrentNext]_vars

---------------------------------------------------------------------------
(* The pages that call the backend: runFetch of frontend/src/App.jsx and    *)
(* onFetch of unnamed/part_000.  Each starts one request per source, waits  *)
(* for all of them to settle and merges the answers of those that were      *)
(* fulfilled.  A record is [text, src, n]: n is its place in the answer of  *)
(* source src, which tells records with the same text apart.                *)

greatplace == Trim(greatplacePad)

\* the texts a record of an answer may carry (Empty: no text)
AnswerTexts == {GreatPlace, greatplace, Empty}

\* the sources a page may ask: App.jsx has three check boxes, part_000 asks
\* /google-scrape and /apartmentratings
SourcesOf(page, boxes) == IF page = "App" THEN boxes ELSE <<TRUE, TRUE>>

\* what one source may answer with
Answers(src) ==
    UNION { { [n \in 1..len |-> [text |-> t[n], src |-> src, n |-> n]] :
                t \in [1..len -> AnswerTexts] } : len \in 0..MaxAnswer }

Pending == [status |-> "pending", value |-> <<>>]

\* dedupe where the key is the text as it is
DedupeKey_Exact(it) == it.text

\* const k = (it.text || "").toLowerCase()
DedupeKey(it) == ToLowerCase(OrElse(it.text, Empty))

\* for (const it of list) { if (!k || seen.has(k)) continue; seen.add(k); out.push(it) }
RECURSIVE DedupeFrom(_, _, _)
DedupeFrom(list, seen, acc) ==
    IF list = <<>> THEN acc
    ELSE LET k == DedupeKey(Head(list))
         IN  IF k = Empty \/ k \in seen
             THEN DedupeFrom(Tail(list), seen, acc)
             ELSE DedupeFrom(Tail(list), seen \cup {k}, Append(acc, Head(list)))

Dedupe(list) == DedupeFrom(list, {}, <<>>)

\* (await Promise.allSettled(tasks)).flatMap(r => r.status === "fulfilled" ? r.value : [])
RECURSIVE FlatFulfilled(_)
FlatFulfilled(settled) ==
    IF settled = <<>> THEN <<>>
    ELSE (IF Head(settled).status = "fulfilled" THEN Head(settled).value ELSE <<>>)
         \o FlatFulfilled(Tail(settled))

\* the fetch button is pressed: the checks of name, location and proxyBase,
\* then one request per source that is asked
RunFetch ==
    /\ cpc = "idle"
    /\ \E formComplete \in BOOLEAN : \E boxes \in [1..3 -> BOOLEAN] :
         IF ~formComplete
         THEN /\ uiError' = "Please enter name and location."
              /\ cpc' = "done"
              /\ UNCHANGED tasks
         ELSE /\ uiError' = ""
              /\ cpc' = "fetching"
              /\ tasks' = SelectSeq([i \in 1..Len(SourcesOf(caller, boxes)) |->
                                       IF SourcesOf(caller, boxes)[i]
                                       THEN [src |-> i] @@ Pending
                                       ELSE [src |-> 0] @@ Pending],
                                    LAMBDA t : t.src # 0)
    /\ UNCHANGED <<scrapeVars, serverVars, placeVars, caller, uiItems>>

\* the request to one source settles: an answer, or a rejection (network
\* error, !res.ok)
Settle(i) ==
    /\ cpc = "fetching"
    /\ i \in 1..Len(tasks)
    /\ tasks[i].status = "pending"
    /\ \/ \E value \in Answers(tasks[i].src) :
            tasks' = [tasks EXCEPT ![i].status = "fulfilled", ![i].value = value]
       \/ tasks' = [tasks EXCEPT ![i].status = "rejected"]
    /\ UNCHANGED <<scrapeVars, serverVars, placeVars, caller, cpc, uiItems,
                   uiError>>

\* all requests have settled: merge, dedupe, setItems / setResults
Merge ==
    /\ cpc = "fetching"
    /\ \A i \in 1..Len(tasks) : tasks[i].status # "pending"
    /\ uiItems' = IF caller = "App"
                  THEN Take(Dedupe(FlatFulfilled(tasks)), MaxShown)
                  ELSE Dedupe(FlatFulfilled(tasks))
    /\ cpc' = "done"
    /\ UNCHANGED <<scrapeVars, serverVars, placeVars, caller, tasks, uiError>>

MergeInit ==
    /\ impl = "server"
    /\ maxReviews = 1
    /\ timeoutMs = 1
    /\ OperationStart
    /\ ServerStart
    /\ clientQueries = {}
    /\ NoOperations
    /\ NoPlaceStep
    /\ NoPoll
    /\ caller \in {"App", "part_000"}
    /\ CallerStart

MergeNext ==
    \/ RunFetch
    \/ \E i \in 1..3 : Settle(i)
    \/ Merge

MergeSpec == MergeInit /\ [][MergeNext]_vars

---------------------------------------------------------------------------
(* backend/server.js, line 158: (await tryOpenFirstResult()) ||              *)
(* (await waitForPlaceUI()), followed driver call by driver call.  A check  *)
(* is waitForPlaceUI: it starts NumProbes waitForSelector calls and goes on *)
(* with the answer of the first to settle (true: the element was found,     *)
(* false: the call rejected); the others stay pending until they settle.    *)

Candidates == 1..NumCandidates
Probes == 1..NumProbes

\* positions at which a waitForPlaceUI call is made
CheckPcs == {"check0", "check", "checkBox", "finalCheck"}

\* where control goes when the check made at position p answers found
AfterCheck(p, found) ==
    IF found THEN "done"
    ELSE CASE p = "check0" -> "visible"
           [] p = "check" -> IF cand < NumCandidates THEN "visible" ELSE "boxVisible"
           [] p = "checkBox" -> "finalCheck"
           [] OTHER -> "done"

\* Promise.race([...]): the three waitForSelector calls are started
StartCheck ==
    /\ ppc \in CheckPcs
    /\ probes = {}
    /\ probes' = Probes
    /\ pnote' = NoAnswer
    /\ UNCHANGED <<scrapeVars, serverVars, callerVars, ppc, cand, abandoned,
                   opened>>

\* the first of the raced calls settles: .then(() => true).catch(() => false)
\* is the answer of the check, and the caller goes on
SettleFirst(k, found) ==
    /\ ppc \in CheckPcs
    /\ k \in probes
    /\ pnote' = [call |-> "waitForPlaceUI", answer |-> found]
    /\ abandoned' = abandoned \cup
            {[probe |-> j, told |-> found] : j \in probes \ {k}}
    /\ probes' = {}
    /\ ppc' = AfterCheck(ppc, found)
    /\ cand' = IF ~found /\ ppc \in {"check0", "check"} THEN cand + 1 ELSE cand
    /\ opened' = found
    /\ UNCHANGED <<scrapeVars, serverVars, callerVars>>

\* a call that lost its race settles: it found its element within its
\* timeout, or it rejected; nobody reads the answer
SettleLoser(a, found) ==
    /\ a \in abandoned
    /\ abandoned' = abandoned \ {a}
    /\ pnote' = [call |-> "loser", answer |-> found]
    /\ UNCHANGED <<scrapeVars, serverVars, callerVars, ppc, cand, probes, opened>>

\* IsVisible where the match is clicked whether it is visible or not
IsVisible_ClicksAnyway ==
    /\ ppc = "visible"
    /\ \E visible \in BOOLEAN :
         pnote' = [call |-> "isVisible", answer |-> visible]
    /\ ppc' = "click"
    /\ UNCHANGED <<scrapeVars, serverVars, callerVars, cand, probes, abandoned,
                   opened>>

\* await el.isVisible().catch(() => false)
IsVisible ==
    /\ ppc = "visible"
    /\ \E visible \in BOOLEAN :
         /\ pnote' = [call |-> "isVisible", answer |-> visible]
         /\ IF visible
            THEN ppc' = "click" /\ UNCHANGED cand
            ELSE /\ ppc' = IF cand < NumCandidates THEN "visible" ELSE "boxVisible"
                 /\ cand' = cand + 1
    /\ UNCHANGED <<scrapeVars, serverVars, callerVars, probes, abandoned, opened>>

\* await el.click({ timeout: 8000 }).catch(() => {})
Click ==
    /\ ppc = "click"
    /\ \E clickRejects \in BOOLEAN :
         pnote' = [call |-> "click", answer |-> ~clickRejects]
    /\ ppc' = "check"
    /\ UNCHANGED <<scrapeVars, serverVars, callerVars, cand, probes, abandoned,
                   opened>>

\* await searchBox.first().isVisible().catch(() => false)
BoxVisible ==
    /\ ppc = "boxVisible"
    /\ \E visible \in BOOLEAN :
         /\ pnote' = [call |-> "boxVisible", answer |-> visible]
         /\ ppc' = IF visible THEN "press" ELSE "finalCheck"
    /\ UNCHANGED <<scrapeVars, serverVars, callerVars, cand, probes, abandoned,
                   opened>>

\* await searchBox.first().press("Enter").catch(() => {})
PressEnter ==
    /\ ppc = "press"
    /\ \E pressRejects \in BOOLEAN :
         pnote' = [call |-> "press", answer |-> ~pressRejects]
    /\ ppc' = "checkBox"
    /\ UNCHANGED <<scrapeVars, serverVars, callerVars, cand, probes, abandoned,
                   opened>>

PlaceInit ==
    /\ impl = "server"
    /\ maxReviews = 1
    /\ timeoutMs = 1
    /\ OperationStart
    /\ ServerStart
    /\ clientQueries = {}
    /\ NoOperations
    /\ NoCaller
    /\ ppc = "check0"
    /\ PlaceStart
    /\ NoPoll

PlaceNext ==
    \/ StartCheck
    \/ \E k \in Probes : \E found \in BOOLEAN : SettleFirst(k, found)
    \/ \E a \in abandoned : \E found \in BOOLEAN : SettleLoser(a, found)
    \/ IsVisible
    \/ Click
    \/ BoxVisible
    \/ PressEnter

PlaceSpec == PlaceInit /\ [][PlaceNext]_vars

---------------------------------------------------------------------------
(* unnamed/part_004: pollOutscraper, hasReviewData and the normalization of *)
(* the /google-reviews handler.  A JSON value is a record tagged with its   *)
(* type; an object carries the function f from its property names to their  *)
(* values.                                                                  *)

JStr(s) == [t |-> "string", s |-> s]
JArr(items) == [t |-> "array", items |-> items]
JObj(f) == [t |-> "object", f |-> f]

\* v[name] (v?.name where the code writes it so): undefined when v is no
\* object or has no such property
Get(v, name) ==
    IF v.t = "object" /\ name \in DOMAIN v.f THEN v.f[name] ELSE Absent

\* the truth value JavaScript gives v
Truthy(v) ==
    CASE v.t \in {"null", "undefined"} -> FALSE
      [] v.t = "string" -> v.s # Empty
      [] OTHER -> TRUE

\* Array.isArray(v)
IsArray(v) == v.t = "array"

\* a || b
Or(a, b) == IF Truthy(a) THEN a ELSE b

ObjectText == <<"[","o","b","j","e","c","t"," ","O","b","j","e","c","t","]">>

\* String(v), for the strings and objects found below
StringOf(v) == IF v.t = "string" THEN v.s ELSE ObjectText

\* an array with at least one element
FullArray(v) == IsArray(v) /\ Len(v.items) > 0

\* it => reviews_data or reviews of it is a non-empty array
ItemHasReviews(it) ==
    FullArray(Get(it, "reviews_data")) \/ FullArray(Get(it, "reviews"))

\* function hasReviewData(json)
HasReviewData(json) ==
    IF ~Truthy(json) THEN FALSE
    ELSE IF IsArray(json) THEN Len(json.items) > 0
    ELSE \/ \E name \in {"data", "results", "reviews", "reviews_data"} :
                FullArray(Get(json, name))
         \/ /\ IsArray(Get(json, "items"))
            /\ \E i \in 1..Len(Get(json, "items").items) :
                   ItemHasReviews(Get(json, "items").items[i])

TerminalStatuses ==
    { <<"s","u","c","c","e","s","s">>, <<"d","o","n","e">>, <<"o","k">>,
      <<"c","o","m","p","l","e","t","e","d">> }

\* json && typeof json === "object" && the lower-cased status is terminal
IsTerminal(json) ==
    /\ Truthy(json)
    /\ json.t \in {"object", "array"}
    /\ ToLowerCase(StringOf(Or(Get(json, "status"), JStr(Empty))))
           \in TerminalStatuses

\* the value can be spread into an argument list
Iterable(v) == v.t \in {"array", "string"}

\* ...v
SpreadOf(v) ==
    IF IsArray(v) THEN v.items ELSE [i \in 1..Len(v.s) |-> JStr(<<v.s[i]>>)]

\* blocks.push(...finalJson.data) or (...finalJson.results) throws a TypeError
BlocksThrow(json) ==
    \E name \in {"data", "results"} :
        Truthy(Get(json, name)) /\ ~Iterable(Get(json, name))

\* const blocks = []; the four statements that fill it
Blocks(json) ==
    LET whole == IF IsArray(json) THEN json.items ELSE <<>>
        data == IF Truthy(Get(json, "data"))
                THEN SpreadOf(Get(json, "data")) ELSE <<>>
        results == IF Truthy(Get(json, "results"))
                   THEN SpreadOf(Get(json, "results")) ELSE <<>>
        spread == whole \o data \o results
        single == IF Len(spread) = 0
                     /\ (Truthy(Get(json, "reviews_data"))
                         \/ Truthy(Get(json, "reviews")))
                  THEN <<json>> ELSE spread
    IN  IF Len(single) = 0 /\ IsArray(Get(json, "items"))
        THEN Get(json, "items").items
        ELSE single

\* items.flatMap((it) => it?.reviews_data || it?.reviews || [])
RECURSIVE FlatMapReviews(_)
FlatMapReviews(its) ==
    IF its = <<>> THEN <<>>
    ELSE LET v == Or(Or(Get(Head(its), "reviews_data"), Get(Head(its), "reviews")),
                     JArr(<<>>))
         IN  (IF IsArray(v) THEN v.items ELSE <<v>>) \o FlatMapReviews(Tail(its))

\* let reviews = ...; the reviews of one block, none when it is no array
ReviewsOf(block) ==
    LET named == Or(Or(Or(Or(Get(block, "reviews"), Get(block, "reviews_data")),
                          Get(block, "reviewsData")), Get(block, "data")),
                    JArr(<<>>))
        reviews == IF ~IsArray(named) /\ IsArray(Get(block, "items"))
                   THEN JArr(FlatMapReviews(Get(block, "items").items))
                   ELSE named
    IN  IF IsArray(reviews) THEN reviews.items ELSE <<>>

\* push(rv, placeUrl): the records it appends to out, none or one
Push(rv, blockUrl) ==
    LET text == Or(IF Truthy(rv)
                   THEN Or(Or(Or(Or(Get(rv, "text"), Get(rv, "review_text")),
                                 Get(rv, "snippet")), Get(rv, "review")),
                           Get(rv, "content"))
                   ELSE rv,
                   JStr(Empty))
        trimmed == Trim(StringOf(text))
        url == Or(Or(Or(Or(Get(rv, "review_link"), Get(rv, "url")),
                        Get(rv, "review_url")), blockUrl), JStr(Empty))
    IN  IF trimmed = Empty THEN <<>> ELSE <<[text |-> trimmed, url |-> url]>>

RECURSIVE PushAll(_, _)
PushAll(reviews, blockUrl) ==
    IF reviews = <<>> THEN <<>>
    ELSE Push(Head(reviews), blockUrl) \o PushAll(Tail(reviews), blockUrl)

\* for (const block of blocks) { ... reviews.forEach((rv) => push(rv, placeUrl)) }
RECURSIVE OutOf(_)
OutOf(blocks) ==
    IF blocks = <<>> THEN <<>>
    ELSE LET block == Head(blocks)
             blockUrl == Or(Or(Get(block, "url"), Get(block, "place_link")),
                            JStr(Empty))
         IN  PushAll(ReviewsOf(block), blockUrl) \o OutOf(Tail(blocks))

\* 5) Dedupe by text: the first record of each lower-cased text
RECURSIVE UniqueFrom(_, _)
UniqueFrom(pushed, seen) ==
    IF pushed = <<>> THEN <<>>
    ELSE LET k == ToLowerCase(Head(pushed).text)
         IN  IF k # Empty /\ k \notin seen
             THEN <<Head(pushed)>> \o UniqueFrom(Tail(pushed), seen \cup {k})
             ELSE UniqueFrom(Tail(pushed), seen)

\* steps 4 and 5 of the handler and its answer: res.json(unique), or the
\* catch clause when the normalization throws
Normalize(json) ==
    IF BlocksThrow(json)
    THEN [status |-> 500, list |-> <<>>]
    ELSE [status |-> 200, list |-> UniqueFrom(OutOf(Blocks(json)), {})]

PendingStatus == <<"P","e","n","d","i","n","g">>
Success == <<"S","u","c","c","e","s","s">>
DONE == <<"D","O","N","E">>

GreatReview == JObj("review_text" :> JStr(GreatPlace))
PaddedReview == JObj("text" :> JStr(greatplacePad))
LoudReview == JObj("snippet" :> JStr(TooLoud))

\* what a fetch of the results location may answer with: a body that is no
\* JSON, a job still pending (bare, with an empty list, with an object in
\* data), a finished job without and with reviews, and the other payload
\* shapes hasReviewData knows
PollResponses ==
    << JNull,
       JObj("status" :> JStr(PendingStatus)),
       JObj("status" :> JStr(PendingStatus) @@ "data" :> JArr(<<>>)),
       JObj("status" :> JStr(PendingStatus) @@ "data" :> JObj(<<>>)),
       JObj("status" :> JStr(Success) @@ "data" :> JArr(<<>>)),
       JObj("status" :> JStr(DONE)),
       JObj("status" :> JStr(Success)
            @@ "data" :> JArr(<<JObj("reviews_data" :>
                                       JArr(<<GreatReview, PaddedReview>>))>>)),
       JArr(<<JObj("reviews" :> JArr(<<LoudReview>>))>>),
       JObj("items" :> JArr(<<JObj("reviews_data" :> JArr(<<GreatReview>>))>>)),
       JArr(<<>>) >>

\* `g:${name}|${location}` of the request at hand
PollKey == <<"g", ":">> \o NameA \o <<"|">> \o Trim(CityB)

\* while (Date.now() - started < maxWaitMs); after the loop: return lastJson
PollHead ==
    /\ pollPc = "head"
    /\ IF waited < maxWaitMs
       THEN pollPc' = "fetch" /\ UNCHANGED <<finalJson, timedOut>>
       ELSE /\ finalJson' = lastJson
            /\ timedOut' = TRUE
            /\ pollPc' = "normalize"
    /\ UNCHANGED <<scrapeVars, callerVars, placeVars, clientQueries, now, cache,
                   query, hpc, responses, scrapeOutcome, scrapeArgs,
                   waited, maxWaitMs, intervalMs, lastJson, pollReply>>

\* fetch, r.text(), JSON.parse, lastJson = json and the two return tests
Fetch ==
    /\ pollPc = "fetch"
    /\ \E i \in 1..Len(PollResponses), took \in 0..MaxFetchTime :
         LET json == PollResponses[i]
         IN  /\ waited' = waited + took
             /\ lastJson' = json
             /\ IF HasReviewData(json) \/ IsTerminal(json)
                THEN finalJson' = json /\ pollPc' = "normalize"
                ELSE pollPc' = "pause" /\ UNCHANGED finalJson
    /\ UNCHANGED <<scrapeVars, callerVars, placeVars, clientQueries, now, cache,
                   query, hpc, responses, scrapeOutcome, scrapeArgs,
                   maxWaitMs, intervalMs, pollReply, timedOut>>

\* await new Promise((res) => setTimeout(res, intervalMs))
Pause ==
    /\ pollPc = "pause"
    /\ \E late \in 0..MaxLate : waited' = waited + intervalMs + late
    /\ pollPc' = "head"
    /\ UNCHANGED <<scrapeVars, callerVars, placeVars, clientQueries, now, cache,
                   query, hpc, responses, scrapeOutcome, scrapeArgs,
                   maxWaitMs, intervalMs, lastJson, finalJson, pollReply,
                   timedOut>>

\* the handler from step 4 on: normalize, dedupe, setCache, res.json; or the
\* catch clause
NormalizeAndAnswer ==
    /\ pollPc = "normalize"
    /\ pollReply' = Normalize(finalJson)
    /\ cache' = IF pollReply'.status = 200
                THEN AfterSet(cache, PollKey, pollReply'.list, 0)
                ELSE cache
    /\ pollPc' = "answered"
    /\ UNCHANGED <<scrapeVars, callerVars, placeVars, clientQueries, now,
                   query, hpc, responses, scrapeOutcome, scrapeArgs,
                   waited, maxWaitMs, intervalMs, lastJson, finalJson, timedOut>>

PollInit ==
    /\ impl = "server"
    /\ maxReviews = 1
    /\ timeoutMs = 1
    /\ OperationStart
    /\ ServerStart
    /\ clientQueries = {}
    /\ NoOperations
    /\ NoCaller
    /\ NoPlaceStep
    /\ pollPc = "head"
    /\ maxWaitMs \in 0..MaxWait
    /\ intervalMs \in 1..MaxInterval
    /\ PollStart

PollNext == PollHead \/ Fetch \/ Pause \/ NormalizeAndAnswer

PollSpec == PollInit /\ [][PollNext]_vars

---------------------------------------------------------------------------
(* Properties *)

Returned == pc = "done" /\ outcome = "ok"
Failed == pc = "done" /\ outcome = "error"

TextsOf(records) == [i \in 1..Len(records) |-> records[i].text]

\* steps of the collection loop, as seen from outside
IterationStart == pc = "loopHead" /\ pc' = "extract"
IterationStep == pc = "extract" /\ pc' \in {"scroll", "share"}
LoopExit == pc \in LoopPcs /\ pc' = "share"

\* C1: on every exit path of scrapeGoogleReviews, including a rejection of
\* browser.newContext() or context.newPage(), no launched browser is still
\* open when the function has returned or thrown.
C1_SessionReleasedOnEveryExit ==
    pc = "done" => browser # "open"

\* C2: an operation launches at most one browser and closes its context and
\* its browser at most once each; after the release no position that issues a
\* driver call is reached, nothing runs once the function has returned or
\* thrown, and an error in flight only leads to the handler and out (no retry).
C2_ReleasedAtMostOnce ==
    /\ launches <= 1
    /\ contextCloses <= 1
    /\ browserCloses <= 1
    /\ (contextCloses > 0 \/ browserCloses > 0) => pc \in {"return", "done"}
    /\ outcome # "running" => pc = "done"
    /\ errKind # "none" => pc \in {"catch", "finally", "done"}

\* C2 witness: a fatal error after the session was opened, released once.
C2_Witness ==
    /\ Failed /\ errKind = "ReviewsNotFound"
    /\ launches = 1 /\ contextCloses = 1 /\ browserCloses = 1

\* C3: the list a successful scrape returns is never longer than maxReviews.
C3_AtMostMaxResults ==
    Returned => Len(result) <= maxReviews

\* C3 witness: one chunk pushed the accumulated set above maxReviews and the
\* result was cut to maxReviews.
C3_Witness ==
    Returned /\ Len(out) > maxReviews /\ Len(result) = maxReviews

\* C4: no two returned records have texts that are equal ignoring case.
C4_NoCaseInsensitiveDuplicates ==
    Returned =>
        \A i, j \in 1..Len(result) :
            i # j => ToLowerCase(result[i].text) # ToLowerCase(result[j].text)

\* C5: the returned texts are a prefix of the accumulated sequence, every
\* returned text has the casing of the first-seen occurrence of its text, and
\* the records are in first-seen order.
C5_FirstSeenOrderAndCasing ==
    Returned =>
        LET t == TextsOf(result)
        IN  /\ t = Take(out, maxReviews)
            /\ \A i \in 1..Len(t) : t[i] \in Range(firstSeen)
            /\ \A i, j \in 1..Len(t) : \A a, b \in 1..Len(firstSeen) :
                   (i < j /\ firstSeen[a] = t[i] /\ firstSeen[b] = t[j]) => a < b

\* one of the three stop conditions holds for count n, streak s at time t
StopCondition(n, s, t) ==
    n >= maxReviews \/ s >= StagnationLimit \/ t >= timeoutMs

\* C6: the collection loop ends only when a stop condition holds (count >=
\* maxReviews, streak at the threshold, budget used up), starts an iteration
\* only when none holds, and every iteration either grows the unique set or
\* increments the streak (which is why it ends even if the clock stands still).
C6_LoopStopsExactlyOnStopCondition ==
    [][ /\ LoopExit => StopCondition(Len(out'), stagnation', elapsed)
        /\ IterationStart => ~StopCondition(Len(out), stagnation, elapsed)
        /\ IterationStep => (Len(out') > Len(out) \/ stagnation' = stagnation + 1)
      ]_vars

\* C7: when the budget runs out during collection (at least one iteration has
\* run), no error is raised and the function returns the accumulated texts,
\* cut to maxReviews.
C7_TimeExhaustionReturnsPartial ==
    (stopCause = "time" /\ collected) =>
        /\ errKind = "none"
        /\ outcome # "error"
        /\ pc = "done" => (outcome = "ok" /\ TextsOf(result) = Take(out, maxReviews))

\* C7 witness: a scrape that ran out of time after collecting something and
\* returned it.
C7_Witness ==
    Returned /\ stopCause = "time" /\ collected /\ Len(result) >= 1

\* C8: when the budget was exceeded before the collection loop was reached,
\* the operation does not return a success result.
C8_NoSuccessAfterDeadlineInNavigation ==
    deadlineInNav => outcome # "ok"

\* C9: after StagnationLimit consecutive iterations without growth of the
\* unique count the loop has stopped; a scrape that stopped on stagnation
\* returns, below maxReviews, everything accumulated, all records with the
\* same url.
C9_StagnationStops ==
    /\ idleRun >= StagnationLimit => pc \notin LoopPcs
    /\ (pc = "done" /\ stopCause = "stagnation") =>
           /\ outcome = "ok"
           /\ TextsOf(result) = out
           /\ Len(out) < maxReviews
           /\ \A i, j \in 1..Len(result) : result[i].url = result[j].url

\* C10: in every iteration the streak is reset to 0 exactly when the unique
\* count grew in that iteration, and is incremented by 1 otherwise.
C10_StreakFollowsUniqueCount ==
    [][ IterationStep =>
            IF Len(out') > Len(out)
            THEN stagnation' = 0
            ELSE stagnation' = stagnation + 1
      ]_vars

\* C11: the accumulated texts only grow: every step leaves the texts gathered
\* so far in place, in their order, and the unique count never decreases,
\* whatever an iteration extracts (an empty chunk included).
C11_TextsOnlyAdded ==
    [][ /\ Len(out') >= Len(out)
        /\ SubSeq(out', 1, Len(out)) = out
      ]_vars

\* C11 witness: after texts were gathered, an iteration added nothing and the
\* loop went on.
C11_Witness ==
    pc = "scroll" /\ Len(out) >= 1 /\ idleRun >= 1

\* the number of search URLs the implementation has (googleScraper.js: the
\* single mapsSearch)
NumVariants == IF impl = "server" THEN NumSearchVariants ELSE 1

C13_NoCardsIsReviewsNotFound ==
    /\ firstLook = "empty" =>
           errKind = "ReviewsNotFound" /\ pc \in {"catch", "finally"}
    /\ errKind = "ReviewsNotFound" =>
           outcome # "ok" /\ ~collected /\ result = <<>>

\* the step that opens the reviews view: openReviews() in server.js, the click
\* on the All-reviews button in googleScraper.js
OpenReviewsStep == pc \in {"openReviews", "clickAll"} /\ pc' # pc

\* C14: the step that opens the reviews view never fails the operation: with
\* no reviews control visible, or with a click that fails, the operation goes
\* on to the next step; and the step clicks at most one control, the first
\* visible one in the fixed order.
C14_OpenReviewsNeverFatal ==
    [][ /\ OpenReviewsStep =>
               errKind' = "none" /\ pc' \in {"findCards", "sort"}
        /\ bestEffort'.step = "openReviews" =>
               LET visible == bestEffort'.page
                   clicked == bestEffort'.clicked
               IN  /\ Len(clicked) <= 1
                   /\ visible = {} => clicked = <<>>
                   /\ visible # {} =>
                          /\ Len(clicked) = 1
                          /\ clicked[1] \in visible
                          /\ \A c \in visible : clicked[1] <= c
      ]_vars

\* the sort block as one step
SortStep == pc = "sort" /\ pc' # pc

\* C15: the sort step never raises and always goes on to the collection,
\* whether the Sort control and the Newest item are there and whether the
\* clicks work; it hands on the state it was given, so what is collected and
\* returned afterwards does not depend on whether the sorting worked.
C15_SortIsBestEffort ==
    [][ SortStep =>
            /\ pc' \in {"loopHead", "scrollerWait"}
            /\ errKind' = "none"
            /\ bestEffort'.step = "sort"
            /\ UNCHANGED <<queryVars, elapsed, sessionVars, variant, onPlace,
                           cardsLocator, loopVars, placeUrl, outcome, result>>
      ]_vars

\* C15 witness: the sort step found no Newest item to click, or a click
\* rejected, and the operation is on its way into the collection.
C15_Witness ==
    /\ bestEffort.step = "sort"
    /\ bestEffort.clicked # <<1, 2>> \/ bestEffort.threw
    /\ pc \in {"loopHead", "scrollerWait"}

\* C16: an invocation of the consent handler never fails the operation,
\* whatever the page shows and whichever lookup or click rejects: the
\* operation goes on to the place-page check.  The invocation clicks at most
\* one accept button: the top-level one when it is visible, otherwise the
\* button of the first consent frame that has one, and none when there is
\* none.
C16_ConsentNeverFails ==
    bestEffort.step = "consent" =>
        LET top == bestEffort.page.top
            frames == bestEffort.page.frames
            clicked == bestEffort.clicked
        IN  /\ pc = "openPlace" /\ errKind = "none"
            /\ Len(clicked) <= 1
            /\ top => clicked = <<0>>
            /\ \A i \in 1..Len(frames) :
                   clicked = <<i>> =>
                       /\ ~top
                       /\ frames[i] = "button"
                       /\ \A j \in 1..(i - 1) : frames[j] = "none"
            /\ (~top /\ \A i \in 1..Len(frames) : frames[i] = "none") =>
                   clicked = <<>> /\ ~bestEffort.threw
            /\ \A k \in 1..Len(clicked) : clicked[k] \in 0..Len(frames)

\* C16 witness: the lookup in a consent frame rejected during an invocation
\* and the operation went on.
C16_Witness ==
    /\ bestEffort.step = "consent" /\ bestEffort.threw
    /\ bestEffort.clicked = <<>>
    /\ pc = "openPlace" /\ errKind = "none"

\* a navigation step has completed: a search page was opened, a place page
\* was reached, or the reviews view was opened
NavigationStepDone ==
    /\ pc' # pc /\ errKind' = "none"
    /\ \/ pc \in {"goto", "openReviews", "clickFirst", "clickAll"}
       \/ pc = "openPlace" /\ onPlace'

\* C17: after each navigation step (open search, open place, open reviews)
\* the consent handler is invoked next.
C17_ConsentAfterEachNavigationStep ==
    [][ NavigationStepDone => pc' = "consent" ]_vars

\* C18: every returned record carries the same source url: the share url of
\* the place when one was found, the empty string otherwise.
C18_SharedUrlOrEmpty ==
    Returned =>
        \A i \in 1..Len(result) :
            result[i].url = (IF placeUrl # "" THEN placeUrl ELSE "")

\* how far the operation has come: 1 a search page is being opened and
\* checked, 2 the place page is open, 3 the reviews view is open, 4 the sort
\* step is done and the collection runs, 5 the collection is over, 6 the
\* operation is failing or has ended
Stage(p) ==
    CASE p \in {"launch", "newContext", "newPage"} -> 0
      [] p \in {"goto", "consent", "openPlace", "clickFirst", "waitPanel"} -> 1
      [] p \in {"openReviews", "clickAll"} -> 2
      [] p \in {"findCards", "scroller", "sort"} -> 3
      [] p \in {"scrollerWait"} \cup LoopPcs -> 4
      [] p \in {"share", "close", "return", "result"} -> 5
      [] p \in {"catch", "finally", "done"} -> 6

\* C19: the operation only moves forward: no step takes it to an earlier
\* stage; once a place page was reached no search page is opened; once the
\* collection has started no navigation step runs; and once an error is in
\* flight or the operation has ended, no navigation or collection step runs.
C19_NavigationOnlyForward ==
    [][ /\ Stage(pc') >= Stage(pc)
        /\ onPlace => (onPlace' /\ visited' = visited /\ Stage(pc') >= 2)
        /\ (collected \/ pc \in LoopPcs) =>
               (pc' \notin NavPcs /\ UNCHANGED navVars)
        /\ (errKind # "none" \/ pc = "done") =>
               /\ Stage(pc') = 6
               /\ UNCHANGED <<navVars, out, collected>>
      ]_vars

\* C19 witness: an operation that reached the place page through its second
\* search variant, started collecting, and then failed.
C19_Witness ==
    Failed /\ onPlace /\ collected /\ visited = <<1, 2>>

\* C20: a request whose scrape fails is answered with exactly one response,
\* the error response of the catch clause, and the handler ends; no request
\* is answered twice, and every request whose handler has ended was answered
\* exactly once.
C20_FailureBecomesOneErrorResponse ==
    \A r \in Requests :
        /\ Len(responses[r]) <= 1
        /\ hpc[r] = "done" <=> Len(responses[r]) = 1
        /\ scrapeOutcome[r] \in ErrorKinds =>
               /\ hpc[r] = "done"
               /\ responses[r][1].status = 500
               /\ responses[r][1].error = "google-scrape failed"
               /\ responses[r][1].message = ErrorMessage(scrapeOutcome[r])
               /\ responses[r][1].json = <<>>

\* C20 witness: a request's scrape was rejected with "Review cards not found"
\* and the request was answered with the error response.
C20_Witness ==
    \E r \in Requests :
        /\ scrapeOutcome[r] = "ReviewsNotFound"
        /\ hpc[r] = "done"
        /\ Len(responses[r]) = 1 /\ responses[r][1].status = 500

\* the request carries no name or no location (absent, empty or only blanks)
MissingParam(q) == Trim(q.name) = Empty \/ Trim(q.location) = Empty

\* C21: a request without a name or without a location is answered with the
\* error response in the step in which it arrives: no scrape is started for
\* it and the cache is left as it was; hence no scrape is ever awaited for a
\* query whose name or location is empty or blank.
C21_MissingParamRejectedBeforeScrape ==
    [][ \A r \in Requests :
          /\ (hpc[r] = "waiting" /\ hpc'[r] # "waiting" /\ MissingParam(query'[r])) =>
                 /\ hpc'[r] = "done"
                 /\ Len(responses'[r]) = 1 /\ responses'[r][1].status = 500
                 /\ scrapeOutcome'[r] = "none"
                 /\ cache' = cache
          /\ hpc'[r] = "scraping" => ~MissingParam(query'[r])
      ]_vars

\* C21 witness: with an entry in the cache, a request whose name is only a
\* blank was answered with the error response.
C21_Witness ==
    \E r \in Requests :
        /\ query[r].name = Blank /\ hpc[r] = "done"
        /\ responses[r][1].status = 500
        /\ cache # {}

\* C22: whatever the max and timeout parameters of the request are, the
\* scrape is started with 0 < maxReviews <= MaxCap and
\* 0 < timeoutMs <= TimeoutCap.
C22_ScrapeArgsPositiveAndCapped ==
    \A r \in Requests :
        scrapeArgs[r] # NoArgs =>
            /\ scrapeArgs[r].maxReviews > 0
            /\ scrapeArgs[r].maxReviews <= MaxCap
            /\ scrapeArgs[r].timeoutMs > 0
            /\ scrapeArgs[r].timeoutMs <= TimeoutCap

\* the (name, location, maxResults) triple of query string q
Triple(q) ==
    <<Required(q.name), Required(q.location),
      ParseBounded(q.max, DefaultMax, MaxCap)>>

\* request r is answered from the cache in this step
ServedFromCache(r) ==
    /\ hpc[r] = "waiting"
    /\ hpc'[r] = "done"
    /\ responses'[r] # <<>>
    /\ responses'[r][1].status = 200

\* C23: a request is answered from the cache only with an entry that was
\* stored for exactly its own (name, location, maxResults) triple, names and
\* locations that contain "|" included.
C23_CacheKeyedByTriple ==
    [][ \A r \in Requests :
            ServedFromCache(r) =>
                \A e \in cache :
                    e.k = CacheKey(Triple(query'[r])[1], Triple(query'[r])[2],
                                   Triple(query'[r])[3])
                        => Triple(query[e.by]) = Triple(query'[r])
      ]_vars

\* the texts a call gathers on a page showing feed when it runs by itself
RECURSIVE TextsAlone(_, _)
TextsAlone(feed, st) ==
    LET after == Iteration(feed, st)
    IN  IF after.stop THEN after.texts
        ELSE TextsAlone(feed, [st EXCEPT !.texts = after.texts,
                                         !.stagnation = after.stagnation,
                                         !.lastCount = after.lastCount,
                                         !.scrolls = @ + 1])

\* the records a call returns when it runs by itself and reads share URL url
ResultAlone(feed, url) ==
    LET texts == TextsAlone(feed, FreshCall(feed))
    IN  IF impl = "server" THEN ToRecords(texts, SourceUrl(url), maxReviews)
        ELSE G_ToRecords(texts, url, maxReviews)

NormalizeStep ==
    \/ impl = "server" /\ pc = "return" /\ pc' # pc
    \/ impl = "scraper" /\ pc = "result" /\ pc' # pc

Merged == cpc = "done" /\ uiError = ""

\* C26: the merged list has no two records whose texts are equal ignoring
\* case and no record without text; it holds, in the order of the sources,
\* exactly the first record of each text among the answers that were
\* fulfilled, whether or not another source's request was rejected.
C26_MergeKeepsFirstOfEachText ==
    Merged =>
        LET list == FlatFulfilled(tasks)
            place(it) == CHOOSE j \in 1..Len(list) : list[j] = it
        IN  /\ \A i, j \in 1..Len(uiItems) :
                  i # j => ToLowerCase(uiItems[i].text) # ToLowerCase(uiItems[j].text)
            /\ \A i \in 1..Len(uiItems) : uiItems[i].text # Empty
            /\ \A i \in 1..Len(uiItems) :
                  /\ uiItems[i] \in Range(list)
                  /\ \A j \in 1..(place(uiItems[i]) - 1) :
                        ToLowerCase(list[j].text) # ToLowerCase(uiItems[i].text)
            /\ \A i, j \in 1..Len(uiItems) :
                  i < j => place(uiItems[i]) < place(uiItems[j])
            /\ \A j \in 1..Len(list) :
                  list[j].text # Empty =>
                      \E i \in 1..Len(uiItems) :
                          ToLowerCase(uiItems[i].text) = ToLowerCase(list[j].text)

\* C26 witness: one request was rejected, two others were fulfilled with the
\* same text in different case and a record without text, and the merge kept
\* the record of the earlier source.
C26_Witness ==
    /\ Merged
    /\ \E i \in 1..Len(tasks) : tasks[i].status = "rejected"
    /\ \E i, j \in 1..Len(tasks) :
          /\ i < j
          /\ tasks[i].status = "fulfilled" /\ tasks[j].status = "fulfilled"
          /\ \E a \in Range(tasks[i].value), b \in Range(tasks[j].value) :
                /\ a.text # b.text
                /\ ToLowerCase(a.text) = ToLowerCase(b.text)
                /\ a \in Range(uiItems)
                /\ b \notin Range(uiItems)
          /\ \E b \in Range(tasks[j].value) : b.text = Empty

\* C27: at most one driver call of a scrape is in flight at any time: no two
\* probes of a place-page check are pending together, and no probe that lost
\* its race is still pending once the step has gone on.
C27_OneDriverCallInFlight ==
    /\ Cardinality(probes) <= 1
    /\ abandoned = {}

\* C28: a place-page check answers false only when none of its probes finds
\* its element: no probe of a check that answered false finds its element
\* afterwards, within its own timeout.
C28_FalseOnlyWhenNoProbeFinds ==
    [][ \A a \in abandoned :
            (a \notin abandoned' /\ pnote'.call = "loser" /\ pnote'.answer)
                => a.told
      ]_vars

\* C29: the open-place step goes through the candidates in their order, one
\* at a time; it clicks a candidate only when isVisible answered true for it
\* and makes a place-page check after every click, whether the click
\* succeeded or not; it is done with success as soon as a check answers true;
\* the search input is looked for and Enter pressed only after every
\* candidate was gone through; and it is done with failure only on a failed
\* check that comes after the candidates and the search input.
C29_OpenPlaceOrder ==
    [][ /\ cand' \in {cand, cand + 1}
        /\ ppc' = "click" =>
              /\ cand' = cand /\ cand \in Candidates
              /\ ppc = "click" \/ pnote' = [call |-> "isVisible", answer |-> TRUE]
        /\ (ppc = "click" /\ ppc' # ppc) => ppc' = "check"
        /\ (pnote'.call = "waitForPlaceUI" /\ pnote'.answer) =>
              (ppc' = "done" /\ opened')
        /\ ppc' \in {"boxVisible", "press", "checkBox"} =>
              cand' = NumCandidates + 1
        /\ (ppc' = "press" /\ ppc # "press") =>
              pnote' = [call |-> "boxVisible", answer |-> TRUE]
        /\ (ppc' = "done" /\ ppc # "done" /\ ~opened') =>
              /\ ppc = "finalCheck"
              /\ pnote' = [call |-> "waitForPlaceUI", answer |-> FALSE]
              /\ cand' = NumCandidates + 1
      ]_vars

\* C29 witness: every candidate was gone through, Enter was pressed in the
\* search input and the check after it has just failed.
C29_Witness ==
    /\ ppc = "finalCheck"
    /\ cand = NumCandidates + 1
    /\ pnote = [call |-> "waitForPlaceUI", answer |-> FALSE]

\* C30: in every iteration the stop conditions are evaluated between the
\* merge and the scroll: the iteration goes on to scroll exactly when, with
\* the merge done, the count is below maxReviews, the streak is below the
\* threshold and the budget is not used up; and a scroll is followed by the
\* next pass of the loop, never by a second scroll.
C30_ScrollOnlyWhenNoStopCondition ==
    [][ /\ IterationStep =>
              (pc' = "scroll" <=> ~StopCondition(Len(out'), stagnation', elapsed'))
        /\ (pc = "scroll" /\ pc' # pc /\ errKind' = "none") => pc' = "loopHead"
      ]_vars

\* C31: in every iteration the cards are looked for with the whole ordered
\* list of patterns: whenever some pattern of the list matches a rendered
\* card, the extraction of that iteration works on matched cards, also when
\* the pattern that matched in earlier iterations matches none now.
C31_AnyPatternThatYieldsIsUsed ==
    look.matched > 0 => look.used > 0

\* a text a record may carry: not empty, trimmed, above the length threshold
ProperText(t) == t # Empty /\ Trim(t) = t /\ Len(t) > MinTextLength

\* C32: every accumulated text and every text returned is non-empty, trimmed
\* and longer than MinTextLength; an iteration whose cards gave only strings
\* at or below the threshold adds nothing to the accumulated texts and does
\* not reset the streak.
C32_OnlyProperTextsCount ==
    [][ /\ \A i \in 1..Len(out') : ProperText(out'[i])
        /\ \A i \in 1..Len(result') : ProperText(result'[i].text)
        /\ (IterationStep /\ look'.used > 0 /\ look'.kept = 0) =>
              (out' = out /\ stagnation' = stagnation + 1)
      ]_vars

\* the share-URL block runs
ShareStep == pc = "share" /\ pc' # pc

\* C33: the "More" expansion and the share-URL block never fail the
\* operation: when a driver call of theirs rejects no error is raised and
\* the operation goes on as it would have; the share-URL block runs only on
\* leaving the collection loop, with the session still open, nothing else
\* writes the URL, and a block that read no URL leaves it empty.
C33_MoreAndShareAreBestEffort ==
    [][ /\ (bestEffort'.step \in {"more", "share"} /\ bestEffort'.threw
             /\ bestEffort' # bestEffort) =>
              (pc' \notin {"catch", "finally"} /\ errKind' = "none"
               /\ outcome' = "running")
        /\ ShareStep =>
              /\ errKind' = "none" /\ errKind = "none"
              /\ pc' \in {"close", "result"}
              /\ browser = "open" /\ browser' = "open"
              /\ collected \/ stopCause # "none"
        /\ (pc' = "share" /\ pc # "share") => pc \in LoopPcs
        /\ ~ShareStep => placeUrl' = placeUrl
      ]_vars

\* C33 witness: texts were gathered, a driver call of the share-URL block
\* rejected, no URL was read, and the operation goes on to release the
\* session without an error.
C33_Witness ==
    /\ pc \in {"close", "result"}
    /\ bestEffort.step = "share" /\ bestEffort.threw
    /\ placeUrl = ""
    /\ Len(out) >= 1
    /\ errKind = "none"

\* the cache key of query string q
KeyOf(q) == CacheKey(Triple(q)[1], Triple(q)[2], Triple(q)[3])

\* request r arrives with both parameters and without nocache=1: getCache runs
Lookup(r) ==
    /\ hpc[r] = "waiting" /\ hpc'[r] # "waiting"
    /\ ~MissingParam(query'[r])
    /\ Trim(query'[r].nocache) # One

\* C34: a request is answered from the cache only with an entry whose age
\* (now minus the time it was stored) is at most TTL_MS; a lookup that finds
\* an entry older than that is a miss and removes the entry; and setCache
\* leaves one entry for the key, stored at the time of the write.
C34_CacheServesOnlyWithinTtl ==
    [][ \A r \in Requests :
          /\ (Lookup(r) /\ ServedFromCache(r)) =>
                \E e \in cache :
                    /\ e.k = KeyOf(query'[r])
                    /\ now - e.ts <= TTL_MS
                    /\ responses'[r][1].json =
                           ResultFor(e.v, Keywords(query'[r].keywords))
          /\ (Lookup(r) /\ \E e \in cache : e.k = KeyOf(query'[r])
                                           /\ now - e.ts > TTL_MS) =>
                /\ hpc'[r] = "scraping"
                /\ \A e \in cache' : e.k # KeyOf(query'[r])
          /\ (hpc[r] = "scraping" /\ scrapeOutcome'[r] = "ok") =>
                /\ \E e \in cache' : e.k = KeyOf(query[r]) /\ e.ts = now
                /\ \A e, f \in cache' : e.k = f.k => e = f
      ]_vars

\* C34 witness: an entry was stored, outlived the TTL, and the next request
\* for its key found it gone and started a scrape.
C34_Witness ==
    \E r, later \in Requests :
        /\ scrapeOutcome[r] = "ok"
        /\ hpc[later] = "scraping"
        /\ KeyOf(query[later]) = KeyOf(query[r])
        /\ Trim(query[later].nocache) # One
        /\ now > TTL_MS
        /\ \A e \in cache : e.k # KeyOf(query[r])

\* the scrape awaited for request r rejects in this step
ScrapeFails(r) ==
    hpc[r] = "scraping" /\ hpc'[r] = "done" /\ scrapeOutcome'[r] # "ok"

\* C35: the step in which a scrape fails leaves the cache as it was and
\* answers with the error; an entry appears in the cache only in the step in
\* which the scrape of the request that stores it has succeeded; a request
\* with nocache=1 leaves the cache alone when it arrives; and a request that
\* finds no entry for its key starts a scrape.
C35_FailedScrapeLeavesCacheAlone ==
    [][ /\ \A r \in Requests :
              /\ ScrapeFails(r) =>
                    (cache' = cache /\ responses'[r][1].status = 500)
              /\ (hpc[r] = "waiting" /\ hpc'[r] # "waiting"
                   /\ Trim(query'[r].nocache) = One) => cache' = cache
              /\ (hpc[r] = "waiting" /\ hpc'[r] # "waiting"
                   /\ ~MissingParam(query'[r])
                   /\ \A e \in cache : e.k # KeyOf(query'[r])) =>
                    hpc'[r] = "scraping"
        /\ \A e \in cache' \ cache :
              /\ hpc[e.by] = "scraping"
              /\ scrapeOutcome'[e.by] = "ok"
              /\ e.k = KeyOf(query[e.by])
      ]_vars

\* C35 witness: a result was cached, then a refresh of the same key forced
\* with nocache=1 failed, and the entry of the first scrape is still there.
C35_Witness ==
    \E r, later \in Requests :
        /\ scrapeOutcome[r] = "ok"
        /\ scrapeOutcome[later] \in ErrorKinds
        /\ Trim(query[later].nocache) = One
        /\ KeyOf(query[later]) = KeyOf(query[r])
        /\ \E e \in cache : e.k = KeyOf(query[r]) /\ e.by = r

\* C36: a scrape that succeeds is cached with the list it gave, the empty
\* list included; a request without nocache=1 that finds an empty list stored
\* for its key within the TTL is answered with the empty list in the step in
\* which it arrives, and no scrape is started for it.
C36_EmptyResultIsCached ==
    [][ \A r \in Requests :
          /\ (hpc[r] = "scraping" /\ scrapeOutcome'[r] = "ok") =>
                \E e \in cache' :
                    /\ e.k = KeyOf(query[r]) /\ e.by = r
                    /\ responses'[r][1].json =
                           ResultFor(e.v, Keywords(query[r].keywords))
          /\ (Lookup(r) /\ \E e \in cache : /\ e.k = KeyOf(query'[r])
                                            /\ now - e.ts <= TTL_MS
                                            /\ e.v = <<>>) =>
                /\ hpc'[r] = "done"
                /\ responses'[r] = <<[status |-> 200, json |-> <<>>,
                                      error |-> "", message |-> ""]>>
                /\ scrapeArgs'[r] = NoArgs
                /\ cache' = cache
      ]_vars

\* C36 witness: a scrape gave the empty list, and a later request for the
\* same key was answered with the empty list without a scrape.
C36_Witness ==
    \E r, later \in Requests :
        /\ scrapeOutcome[r] = "ok"
        /\ \E e \in cache : e.k = KeyOf(query[r]) /\ e.by = r /\ e.v = <<>>
        /\ KeyOf(query[later]) = KeyOf(query[r])
        /\ hpc[later] = "done"
        /\ scrapeOutcome[later] = "none"
        /\ responses[later] # <<>>
        /\ responses[later][1].status = 200
        /\ responses[later][1].json = <<>>

\* request r and another request o scrape for the same key at the same time:
\* o is still in flight, or arrived after r and went on to scrape
InFlightWith(r, o) ==
    /\ o # r
    /\ hpc[r] = "scraping"
    /\ scrapeArgs[o] # NoArgs
    /\ KeyOf(query[o]) = KeyOf(query[r])
    /\ (hpc[o] = "scraping" \/ r < o)

\* C37: of two requests scraping for the same key at the same time, each has
\* its own call of scrapeGoogleReviews; the one whose scrape ends is answered
\* from that scrape alone, its browser session is released, and when the
\* scrape resolved the one entry of the key is the list it resolved with.
C37_ConcurrentSameKeyScrapes ==
    [][ \A r, o \in Requests :
          (InFlightWith(r, o) /\ hpc'[r] = "done") =>
              /\ scrapeArgs[r] # NoArgs
              /\ responses'[o] = responses[o]
              /\ SessionReleased(scrapeOutcome'[r])
              /\ scrapeOutcome'[r] = "ok" =>
                    \E e \in cache' :
                        /\ e.k = KeyOf(query[r]) /\ e.by = r
                        /\ \A f \in cache' : f.k = e.k => f = e
                        /\ responses'[r][1].json =
                               ResultFor(e.v, Keywords(query[r].keywords))
      ]_vars

\* a driver call of the collection loop rejects when texts have been gathered
LoopThrow ==
    /\ pc \in LoopPcs /\ Len(out) >= 1
    /\ errKind = "none" /\ errKind' # "none"

\* the handler of the function (catch in server.js, finally in
\* googleScraper.js) is about to run for an error, texts having been gathered
HandlingWithTexts ==
    pc \in {"catch", "finally"} /\ errKind # "none" /\ Len(out) >= 1

\* C38: a rejection inside the collection loop, texts already gathered, takes
\* control straight to the handler with nothing returned; the handler closes
\* the context and the browser and the call ends with the error and with no
\* records.
C38_LoopFailureFailsTheWhole ==
    [][ /\ LoopThrow => (pc' \in {"catch", "finally"} /\ result' = <<>>)
        /\ HandlingWithTexts =>
              /\ pc' = "done"
              /\ outcome' = "error"
              /\ result' = <<>>
              /\ context' = "closed" /\ browser' = "closed"
      ]_vars

\* C38 witness: a call that had gathered texts ended with a driver error, its
\* session closed and no record returned.
C38_Witness ==
    /\ Failed
    /\ errKind = "DriverFailure"
    /\ Len(out) >= 1
    /\ result = <<>>
    /\ browser = "closed"

\* C39: pollOutscraper leaves its loop at the first test made once maxWaitMs
\* has passed and returns the last value parsed; a value with review data or
\* a terminal status is returned in the step that fetched it; a value with
\* neither is returned only when the budget has passed; every pause lasts at
\* least intervalMs and is followed by the test of the loop; and the value
\* returned on timeout is answered with a list.
C39_PollReturnsAndIsNormalized ==
    [][ /\ (pollPc = "head" /\ waited >= maxWaitMs) =>
              (pollPc' = "normalize" /\ finalJson' = lastJson)
        /\ (pollPc = "fetch"
             /\ (HasReviewData(lastJson') \/ IsTerminal(lastJson'))) =>
              (pollPc' = "normalize" /\ finalJson' = lastJson')
        /\ (pollPc # "normalize" /\ pollPc' = "normalize"
             /\ ~HasReviewData(finalJson') /\ ~IsTerminal(finalJson')) =>
              (waited >= maxWaitMs /\ timedOut')
        /\ pollPc = "pause" =>
              (pollPc' = "head" /\ waited' >= waited + intervalMs)
        /\ pollPc' = "fetch" => pollPc = "head"
        /\ (pollPc = "normalize" /\ timedOut) => pollReply'.status = 200
      ]_vars

=============================================================================
